---- MODULE Spec2Model ----
(***************************************************************************)
(* Model of the video library management core of noahjalex/ute:            *)
(* VideoService (path guard, metadata store, scanner, download             *)
(* orchestrator, file locator) and the handlers that call it: the         *)
(* WebSocket download handler, the delete handler and the list handler.    *)
(*                                                                         *)
(* Strings are sequences of one-character strings, so that path cleaning,  *)
(* prefix tests, substring tests and filename sanitization are computed    *)
(* character by character, as the Go code does.                            *)
(***************************************************************************)
EXTENDS Integers, Sequences, FiniteSets, TLC

VARIABLES
    DownloadsDir,   \* VideoService.DownloadsDir, as given on the command line
    requested,      \* SecurePath: the requestedPath of the last call
    spResult,       \* SecurePath: [err, path] returned by the last call
    stderr,         \* parseYtDlpError: the stderr text of the last call
    downloadError,  \* parseYtDlpError: the DownloadError returned by the last call
    attempts,       \* script.js: retryManager.attempts, the Map from key to count
    videos,         \* VideoService.videos: the map from id to *models.Video
    metaFile,       \* the content of metadata.json
    disk,           \* the regular files on disk, by absolute path
    now,            \* the wall clock, in ticks of ten minutes
    mode,           \* which requests the environment issues (set by Init)
    started,        \* how many requests have been started
    pc,             \* per request: the statement its handler is at
    call,           \* per request: the handler's arguments and locals
    chan,           \* per download: progressChan, [buf, closed]
    sent,           \* per download: every message sent on progressChan so far
    closes,         \* per download: how often progressChan has been closed
    sub,            \* per download: the yt-dlp download subprocess
    pipe,           \* per download: the subprocess's stdout and stderr pipes
    rd,             \* per download: the two goroutines that stream the pipes
    relay,          \* per download: HandleWebSocket's relaying loop
    ws,             \* per download: the messages written to the WebSocket
    panicked        \* a goroutine has panicked: the server process is gone

classVars == <<stderr, downloadError, attempts>>
pathVars == <<DownloadsDir, requested, spResult, classVars>>
storeVars == <<videos, metaFile, disk, now>>
envVars == <<mode, started>>
procVars == <<pc, call, chan, sent, closes, sub, pipe, rd, relay, ws, panicked>>

vars == <<pathVars, storeVars, envVars, started, procVars>>

----------------------------------------------------------------------------
(* Bounds *)

\* longest requested path, in characters
MaxLen == 5

\* the wall clock runs from 1 to MaxClock
MaxClock == 2

\* most requests made one after the other
MaxRequests == 2

\* most files in the downloads directory when the scanner and the locator are
\* called on their own
MaxFiles == 2

\* longest filename given to SanitizeFilename on its own
MaxName == 4

\* longest stderr text, in characters
MaxStderr == 18

\* most lines the download subprocess writes to each of stdout and stderr
MaxLines == 1

\* capacity of progressChan in the model (100 in the code: the model keeps the
\* channel small so that a full channel is reached)
ChanCap == 2

\* lines an operating-system pipe holds before the writer blocks
PipeCap == 1

----------------------------------------------------------------------------
(* strings *)

\* strings.HasPrefix
HasPrefix(s, p) ==
    /\ Len(p) <= Len(s)
    /\ SubSeq(s, 1, Len(p)) = p


\* strings.ToLower on one character: the letters the model uses in upper case
LowerChar(c) ==
    CASE c = "D" -> "d"
      [] c = "E" -> "e"
      [] c = "L" -> "l"
      [] c = "N" -> "n"
      [] c = "R" -> "r"
      [] c = "S" -> "s"
      [] c = "U" -> "u"
      [] OTHER -> c

\* strings.ToLower
ToLower(s) == [i \in 1..Len(s) |-> LowerChar(s[i])]

\* strings.Contains
Contains(s, t) ==
    \E i \in 0..(Len(s) - Len(t)) : SubSeq(s, i + 1, i + Len(t)) = t

\* strings.HasSuffix
HasSuffix(s, suf) ==
    /\ Len(suf) <= Len(s)
    /\ SubSeq(s, Len(s) - Len(suf) + 1, Len(s)) = suf

\* strings.TrimSuffix
TrimSuffix(s, suf) ==
    IF HasSuffix(s, suf) THEN SubSeq(s, 1, Len(s) - Len(suf)) ELSE s

\* strings.EqualFold, for the ASCII strings of the model
EqualFold(s, t) == ToLower(s) = ToLower(t)

\* strings.ReplaceAll for a non-empty old: non-overlapping occurrences, from
\* the left
RECURSIVE ReplaceAll(_, _, _)
ReplaceAll(s, old, new) ==
    IF Len(s) < Len(old) THEN s
    ELSE IF SubSeq(s, 1, Len(old)) = old
         THEN new \o ReplaceAll(SubSeq(s, Len(old) + 1, Len(s)), old, new)
         ELSE <<s[1]>> \o ReplaceAll(Tail(s), old, new)

\* the byte value of the characters the model uses (the order of WalkDir)
Ord(c) ==
    CASE c = "\"" -> 34 [] c = "*" -> 42  [] c = "." -> 46  [] c = "/" -> 47
      [] c = "0" -> 48  [] c = "1" -> 49  [] c = "2" -> 50  [] c = "3" -> 51
      [] c = "4" -> 52  [] c = ":" -> 58  [] c = "<" -> 60  [] c = ">" -> 62
      [] c = "?" -> 63  [] c = "D" -> 68  [] c = "E" -> 69  [] c = "\\" -> 92
      [] c = "_" -> 95  [] c = "a" -> 97  [] c = "b" -> 98  [] c = "c" -> 99
      [] c = "d" -> 100 [] c = "e" -> 101 [] c = "f" -> 102 [] c = "g" -> 103
      [] c = "i" -> 105 [] c = "j" -> 106 [] c = "k" -> 107 [] c = "l" -> 108
      [] c = "m" -> 109 [] c = "n" -> 110 [] c = "o" -> 111 [] c = "p" -> 112
      [] c = "r" -> 114 [] c = "s" -> 115 [] c = "t" -> 116 [] c = "v" -> 118
      [] c = "w" -> 119 [] c = "x" -> 120 [] c = "y" -> 121 [] c = "|" -> 124
      [] c = "existing_" -> 200 [] c = "U+29F8" -> 226

\* s sorts before t in byte order
RECURSIVE StrLess(_, _)
StrLess(s, t) ==
    IF t = <<>> THEN FALSE
    ELSE IF s = <<>> THEN TRUE
    ELSE IF s[1] = t[1] THEN StrLess(Tail(s), Tail(t))
    ELSE Ord(s[1]) < Ord(t[1])

\* the strings of a finite set in byte order
RECURSIVE SortStrings(_)
SortStrings(S) ==
    IF S = {} THEN <<>>
    ELSE LET least == CHOOSE s \in S : \A t \in S \ {s} : StrLess(s, t)
         IN  <<least>> \o SortStrings(S \ {least})

\* strconv for the one-digit numbers of the model
Digit(n) ==
    CASE n = 0 -> "0" [] n = 1 -> "1" [] n = 2 -> "2" [] n = 3 -> "3" [] OTHER -> "4"

----------------------------------------------------------------------------
(* path/filepath on a Unix build: the separator is "/" *)

Separator == "/"

\* the elements of a path between separators (empty elements included)
RECURSIVE SplitPath(_)
SplitPath(s) ==
    IF \A i \in 1..Len(s) : s[i] # Separator THEN <<s>>
    ELSE LET i == CHOOSE k \in 1..Len(s) :
                      /\ s[k] = Separator
                      /\ \A j \in 1..(k - 1) : s[j] # Separator
         IN  <<SubSeq(s, 1, i - 1)>> \o SplitPath(SubSeq(s, i + 1, Len(s)))

\* the elements joined by the separator
RECURSIVE JoinElems(_)
JoinElems(elems) ==
    IF elems = <<>> THEN <<>>
    ELSE IF Len(elems) = 1 THEN elems[1]
    ELSE elems[1] \o <<Separator>> \o JoinElems(Tail(elems))

DotDot == <<".", ".">>

\* filepath.Clean's element pass: "" and "." are dropped, ".." removes the
\* element before it, is dropped at the root of a rooted path and is kept at
\* the front of a relative one
RECURSIVE CleanElems(_, _, _)
CleanElems(elems, out, rooted) ==
    IF elems = <<>> THEN out
    ELSE LET e == Head(elems)
             rest == Tail(elems)
         IN  IF e = <<>> \/ e = <<".">> THEN CleanElems(rest, out, rooted)
             ELSE IF e = DotDot
                  THEN IF out # <<>> /\ out[Len(out)] # DotDot
                       THEN CleanElems(rest, SubSeq(out, 1, Len(out) - 1), rooted)
                       ELSE IF rooted THEN CleanElems(rest, out, rooted)
                       ELSE CleanElems(rest, Append(out, e), rooted)
                  ELSE CleanElems(rest, Append(out, e), rooted)

IsAbs(path) == path # <<>> /\ path[1] = Separator

\* filepath.Clean
Clean(path) ==
    IF path = <<>> THEN <<".">>
    ELSE LET rooted == IsAbs(path)
             body == JoinElems(CleanElems(SplitPath(path), <<>>, rooted))
         IN  IF rooted THEN <<Separator>> \o body
             ELSE IF body = <<>> THEN <<".">> ELSE body

\* filepath.Join of two elements: empty elements are ignored, the result is
\* cleaned
Join(a, b) ==
    IF a = <<>> /\ b = <<>> THEN <<>>
    ELSE IF a = <<>> THEN Clean(b)
    ELSE IF b = <<>> THEN Clean(a)
    ELSE Clean(a \o <<Separator>> \o b)

\* the process's working directory (os.Getwd)
Cwd == <<"/", "w">>

\* filepath.Abs
Abs(path) == IF IsAbs(path) THEN Clean(path) ELSE Join(Cwd, path)


\* filepath.Base of a cleaned path
Base(path) ==
    LET elems == SplitPath(path) IN elems[Len(elems)]

\* filepath.Ext: the suffix of the last element from its last dot
Ext(path) ==
    LET name == Base(path)
        dots == {i \in 1..Len(name) : name[i] = "."}
    IN  IF dots = {} THEN <<>>
        ELSE LET last == CHOOSE i \in dots : \A j \in dots : j <= i
             IN  SubSeq(name, last, Len(name))

----------------------------------------------------------------------------
(* VideoService.SecurePath *)

NoError == "nil"
ErrTraversal == "path traversal attempt detected"

\* no call of SecurePath has returned yet
NoResult == [err |-> "none", path |-> <<>>]

\* the prefix test without the separator: a sibling directory whose name
\* starts with the root's name passes
SecurePath_NoSeparator(dir, requestedPath) ==
    LET cleanPath == Clean(requestedPath)
        fullPath == Join(dir, cleanPath)
        absDownloadsDir == Abs(dir)
        absFullPath == Abs(fullPath)
    IN  IF ~HasPrefix(absFullPath, absDownloadsDir) /\ absFullPath # absDownloadsDir
        THEN [err |-> ErrTraversal, path |-> <<>>]
        ELSE [err |-> NoError, path |-> absFullPath]

SecurePath(dir, requestedPath) ==
    LET cleanPath == Clean(requestedPath)
        fullPath == Join(dir, cleanPath)
        absDownloadsDir == Abs(dir)
        absFullPath == Abs(fullPath)
    IN  IF /\ ~HasPrefix(absFullPath, absDownloadsDir \o <<Separator>>)
           /\ absFullPath # absDownloadsDir
        THEN [err |-> ErrTraversal, path |-> <<>>]
        ELSE [err |-> NoError, path |-> absFullPath]

----------------------------------------------------------------------------
(* internal/models *)

\* the replacements with ".." replaced after the single characters and by a
\* dot: a run of four dots keeps two of them
SanitizeFilename_DotForDots(filename) ==
    LET U == <<"_">>
        r1 == ReplaceAll(filename, <<"/">>, U)
        r2 == ReplaceAll(r1, <<"\\">>, U)
        r4 == ReplaceAll(r2, <<":">>, U)
        r5 == ReplaceAll(r4, <<"*">>, U)
        r6 == ReplaceAll(r5, <<"?">>, U)
        r7 == ReplaceAll(r6, <<"\"">>, U)
        r8 == ReplaceAll(r7, <<"<">>, U)
        r9 == ReplaceAll(r8, <<">">>, U)
        r10 == ReplaceAll(r9, <<"|">>, U)
    IN  ReplaceAll(r10, <<".", ".">>, <<".">>)

\* models.SanitizeFilename: the replacements, in the order of the code
SanitizeFilename(filename) ==
    LET U == <<"_">>
        r1 == ReplaceAll(filename, <<"/">>, U)
        r2 == ReplaceAll(r1, <<"\\">>, U)
        r3 == ReplaceAll(r2, <<".", ".">>, U)
        r4 == ReplaceAll(r3, <<":">>, U)
        r5 == ReplaceAll(r4, <<"*">>, U)
        r6 == ReplaceAll(r5, <<"?">>, U)
        r7 == ReplaceAll(r6, <<"\"">>, U)
        r8 == ReplaceAll(r7, <<"<">>, U)
        r9 == ReplaceAll(r8, <<">">>, U)
    IN  ReplaceAll(r9, <<"|">>, U)

\* time.Time: the wall clock reading, and whether a monotonic reading is
\* attached (time.Now attaches one, a file's ModTime and a decoded time do not)
TimeNow(clock) == [wall |-> clock, mono |-> TRUE]
ModTime(attrs) == [wall |-> attrs.mtime, mono |-> FALSE]

\* json.Marshal of a models.Video whose Thumbnail had the tag json:"-"
EncodeVideo_NoThumbnail(v) ==
    [id |-> v.ID, title |-> v.Title, filename |-> v.Filename,
     file_path |-> v.FilePath, file_size |-> v.FileSize, duration |-> v.Duration,
     thumbnail |-> <<>>, upload_date |-> v.UploadDate,
     uploader |-> v.Uploader, description |-> v.Description, url |-> v.URL,
     created_at |-> v.CreatedAt.wall]

\* json.Marshal of a models.Video: the fields under their json tags; a time is
\* written as its wall clock reading
EncodeVideo(v) ==
    [id |-> v.ID, title |-> v.Title, filename |-> v.Filename,
     file_path |-> v.FilePath, file_size |-> v.FileSize, duration |-> v.Duration,
     thumbnail |-> v.Thumbnail, upload_date |-> v.UploadDate,
     uploader |-> v.Uploader, description |-> v.Description, url |-> v.URL,
     created_at |-> v.CreatedAt.wall]

\* json.Unmarshal into a models.Video
DecodeVideo(o) ==
    [ID |-> o.id, Title |-> o.title, Filename |-> o.filename,
     FilePath |-> o.file_path, FileSize |-> o.file_size, Duration |-> o.duration,
     Thumbnail |-> o.thumbnail, UploadDate |-> o.upload_date,
     Uploader |-> o.uploader, Description |-> o.description, URL |-> o.url,
     CreatedAt |-> [wall |-> o.created_at, mono |-> FALSE]]

----------------------------------------------------------------------------
(* the downloads directory on disk *)

\* A disk is a function from the absolute path of each regular file to its
\* attributes [size, mtime]. The downloads directory itself always exists
\* (NewVideoService creates it) and has no subdirectories.

\* os.Stat(path) succeeds
StatOk(dsk, path) == Abs(path) \in DOMAIN dsk

\* os.Stat(path)
Stat(dsk, path) == dsk[Abs(path)]

\* the paths filepath.WalkDir(dir) passes for the files of dir, in its order:
\* the entries of the directory sorted by name, each joined to dir
WalkFiles(dsk, dir) ==
    LET names == {Base(f) : f \in {g \in DOMAIN dsk :
                                      g = Join(Abs(dir), Base(g))}}
        sorted == SortStrings(names)
    IN  [i \in 1..Len(sorted) |-> Join(dir, sorted[i])]

\* the first element of a sequence that satisfies a test, or <<>>
FirstWhere(seq, Test(_)) ==
    LET hits == {i \in 1..Len(seq) : Test(seq[i])}
    IN  IF hits = {} THEN <<>>
        ELSE seq[CHOOSE i \in hits : \A j \in hits : i <= j]

----------------------------------------------------------------------------
(* VideoService: file locator *)

VideoExtensions ==
    << <<".", "m", "p", "4">>, <<".", "m", "k", "v">>, <<".", "w", "e", "b", "m">>,
       <<".", "a", "v", "i">>, <<".", "m", "o", "v">>, <<".", "f", "l", "v">>,
       <<".", "m", "4", "v">> >>

ThumbnailExtensions ==
    << <<".", "j", "p", "g">>, <<".", "j", "p", "e", "g">>, <<".", "p", "n", "g">>,
       <<".", "w", "e", "b", "p">> >>

PartMarker == <<".", "p", "a", "r", "t">>
YtdlMarker == <<".", "y", "t", "d", "l">>

\* one tick of the model's clock is ten minutes: a file is recent when it was
\* modified less than RecencyTicks ticks ago
RecencyTicks == 1

\* the extension is in the allow-list, compared with strings.EqualFold
HasExtensionOf(path, extensions) ==
    \E i \in 1..Len(extensions) : EqualFold(Ext(path), extensions[i])

\* the candidates dir/<stem><ext> for the extensions of the list, in its order
Candidates(dir, stem, extensions) ==
    [i \in 1..Len(extensions) |-> Join(dir, stem \o extensions[i])]

IsPartial(filename) == Contains(filename, PartMarker) \/ Contains(filename, YtdlMarker)

NamesTitleOrId(filename, title, id) ==
    \/ Contains(ToLower(filename), ToLower(title))
    \/ Contains(ToLower(filename), ToLower(id))

ErrNotFoundFile == "downloaded file not found"

\* findDownloadedFile written with the id tried before the title
findDownloadedFile_IdFirst(dsk, dir, clock, title, id) ==
    LET Exists(path) == StatOk(dsk, path)
        exact == Candidates(dir, id, VideoExtensions)
                 \o Candidates(dir, title, VideoExtensions)
                 \o Candidates(dir, SanitizeFilename(title), VideoExtensions)
        hit == FirstWhere(exact, Exists)
    IN  IF hit # <<>> THEN [err |-> NoError, path |-> hit]
        ELSE [err |-> ErrNotFoundFile, path |-> <<>>]

\* findDownloadedFile written with the recency fallback before the search by name
findDownloadedFile_RecentFirst(dsk, dir, clock, title, id) ==
    LET Exists(path) == StatOk(dsk, path)
        exact == Candidates(dir, title, VideoExtensions)
                 \o Candidates(dir, SanitizeFilename(title), VideoExtensions)
                 \o Candidates(dir, id, VideoExtensions)
        hit == FirstWhere(exact, Exists)
        walk == WalkFiles(dsk, dir)
        Named(path) ==
            /\ ~IsPartial(Base(path))
            /\ HasExtensionOf(path, VideoExtensions)
            /\ NamesTitleOrId(Base(path), title, id)
        named == FirstWhere(walk, Named)
        Recent(path) ==
            /\ ~IsPartial(Base(path))
            /\ HasExtensionOf(path, VideoExtensions)
            /\ clock - Stat(dsk, path).mtime < RecencyTicks
        recent == FirstWhere(walk, Recent)
    IN  IF hit # <<>> THEN [err |-> NoError, path |-> hit]
        ELSE IF recent # <<>> THEN [err |-> NoError, path |-> recent]
        ELSE IF named # <<>> THEN [err |-> NoError, path |-> named]
        ELSE [err |-> ErrNotFoundFile, path |-> <<>>]

\* VideoService.findDownloadedFile
findDownloadedFile(dsk, dir, clock, title, id) ==
    LET Exists(path) == StatOk(dsk, path)
        exact == Candidates(dir, title, VideoExtensions)
                 \o Candidates(dir, SanitizeFilename(title), VideoExtensions)
                 \o Candidates(dir, id, VideoExtensions)
        hit == FirstWhere(exact, Exists)
        walk == WalkFiles(dsk, dir)
        Named(path) ==
            /\ ~IsPartial(Base(path))
            /\ HasExtensionOf(path, VideoExtensions)
            /\ NamesTitleOrId(Base(path), title, id)
        named == FirstWhere(walk, Named)
        Recent(path) ==
            /\ ~IsPartial(Base(path))
            /\ HasExtensionOf(path, VideoExtensions)
            /\ clock - Stat(dsk, path).mtime < RecencyTicks
        recent == FirstWhere(walk, Recent)
    IN  IF hit # <<>> THEN [err |-> NoError, path |-> hit]
        ELSE IF named # <<>> THEN [err |-> NoError, path |-> named]
        ELSE IF recent # <<>> THEN [err |-> NoError, path |-> recent]
        ELSE [err |-> ErrNotFoundFile, path |-> <<>>]

\* VideoService.findThumbnailFile: the path, or the empty string
findThumbnailFile(dsk, dir, title, id) ==
    LET Exists(path) == StatOk(dsk, path)
        exact == Candidates(dir, title, ThumbnailExtensions)
                 \o Candidates(dir, SanitizeFilename(title), ThumbnailExtensions)
                 \o Candidates(dir, id, ThumbnailExtensions)
        hit == FirstWhere(exact, Exists)
        Named(path) ==
            /\ HasExtensionOf(path, ThumbnailExtensions)
            /\ NamesTitleOrId(Base(path), title, id)
        named == FirstWhere(WalkFiles(dsk, dir), Named)
    IN  IF hit # <<>> THEN hit ELSE named

----------------------------------------------------------------------------
(* VideoService: metadata store *)

\* the content of metadata.json when the file does not exist, and after a write
\* that failed part-way (not decodable)
FileAbsent == [state |-> "absent", entries |-> {}]
FileCorrupt == [state |-> "corrupt", entries |-> {}]
\* metadata.json exists and os.ReadFile fails (no permission to read it)
FileUnreadable == [state |-> "unreadable", entries |-> {}]

\* The JSON array of metadata.json is kept as the set of its elements:
\* SaveMetadata writes the values of a map, in the unspecified order of the
\* map's iteration, and LoadMetadata reads the array into a map.
FileOf(objects) == [state |-> "written", entries |-> objects]

\* the values of the map
Values(vids) == {vids[i] : i \in DOMAIN vids}

\* an assignment that adds a second entry when the id is already a key
Put_Duplicate(vids, video) ==
    IF video.ID \in DOMAIN vids
    THEN [i \in DOMAIN vids \cup {video.ID \o <<"'">>} |->
            IF i = video.ID \o <<"'">> THEN video ELSE vids[i]]
    ELSE [i \in DOMAIN vids \cup {video.ID} |-> IF i = video.ID THEN video ELSE vids[i]]

\* vs.videos[video.ID] = video
Put(vids, video) ==
    [i \in DOMAIN vids \cup {video.ID} |-> IF i = video.ID THEN video ELSE vids[i]]

\* delete(vs.videos, id)
Remove(vids, id) == [i \in DOMAIN vids \ {id} |-> vids[i]]

EmptyMap == [i \in {} |-> {}]

\* SaveMetadata, up to json.MarshalIndent: the bytes to write
MarshalVideos(vids) == FileOf({EncodeVideo(v) : v \in Values(vids)})

\* LoadMetadata: [err, videos]. No file is no error and leaves the map; a file
\* that cannot be read or decoded is an error and leaves the map; otherwise the
\* map is replaced by the entries of the file, by id.
ErrDecode == "json: cannot unmarshal"
ErrRead == "open metadata.json: permission denied"

\* LoadMetadata written to make the new map before it reads the file
LoadMetadata_ClearsFirst(vids, file) ==
    IF file.state = "absent" THEN [err |-> NoError, videos |-> vids]
    ELSE IF file.state = "unreadable" THEN [err |-> ErrRead, videos |-> EmptyMap]
    ELSE IF file.state = "corrupt" THEN [err |-> ErrDecode, videos |-> EmptyMap]
    ELSE LET decoded == {DecodeVideo(o) : o \in file.entries}
         IN  [err |-> NoError,
              videos |-> [i \in {v.ID : v \in decoded} |->
                              CHOOSE v \in decoded : v.ID = i]]

LoadMetadata(vids, file) ==
    IF file.state = "absent" THEN [err |-> NoError, videos |-> vids]
    ELSE IF file.state = "unreadable" THEN [err |-> ErrRead, videos |-> vids]
    ELSE IF file.state = "corrupt" THEN [err |-> ErrDecode, videos |-> vids]
    ELSE LET decoded == {DecodeVideo(o) : o \in file.entries}
         IN  [err |-> NoError,
              videos |-> [i \in {v.ID : v \in decoded} |->
                              CHOOSE v \in decoded : v.ID = i]]

\* GetAllVideos
GetAllVideos(vids) == Values(vids)

\* SearchVideos without strings.ToLower on the fields
SearchVideos_FieldsAsStored(vids, query) ==
    LET q == ToLower(query)
    IN  {v \in Values(vids) :
            \/ Contains(v.Title, q)
            \/ Contains(v.Uploader, q)
            \/ Contains(v.Description, q)}

\* SearchVideos
SearchVideos(vids, query) ==
    LET q == ToLower(query)
    IN  {v \in Values(vids) :
            \/ Contains(ToLower(v.Title), q)
            \/ Contains(ToLower(v.Uploader), q)
            \/ Contains(ToLower(v.Description), q)}

----------------------------------------------------------------------------
(* cmd/web: parseYtDlpError *)

ErrorTypeValidation == "validation_error"
ErrorTypeNetwork == "network_error"
ErrorTypeNotFound == "not_found_error"
ErrorTypeBinary == "binary_error"
ErrorTypePermission == "permission_error"
ErrorTypeFileSystem == "filesystem_error"
ErrorTypeUnknown == "unknown_error"

NoDownloadError == [Type |-> "", Message |-> "", Details |-> <<>>, Code |-> 0]

\* the texts parseYtDlpError looks for, class by class
NetworkPatterns ==
    {<<"n", "e", "t", "w", "o", "r", "k">>,
     <<"c", "o", "n", "n", "e", "c", "t", "i", "o", "n">>,
     <<"t", "i", "m", "e", "o", "u", "t">>,
     <<"d", "n", "s">>}
NotFoundPatterns ==
    {<<"v", "i", "d", "e", "o", " ", "u", "n", "a", "v", "a", "i", "l", "a", "b", "l", "e">>,
     <<"n", "o", "t", " ", "a", "v", "a", "i", "l", "a", "b", "l", "e">>,
     <<"p", "r", "i", "v", "a", "t", "e", " ", "v", "i", "d", "e", "o">>,
     <<"r", "e", "m", "o", "v", "e", "d">>,
     <<"d", "e", "l", "e", "t", "e", "d">>,
     <<"4", "0", "4">>}
PermissionPatterns ==
    {<<"p", "e", "r", "m", "i", "s", "s", "i", "o", "n">>,
     <<"a", "c", "c", "e", "s", "s", " ", "d", "e", "n", "i", "e", "d">>,
     <<"f", "o", "r", "b", "i", "d", "d", "e", "n">>,
     <<"4", "0", "1">>,
     <<"4", "0", "3">>}
UnsupportedPatterns ==
    {<<"u", "n", "s", "u", "p", "p", "o", "r", "t", "e", "d", " ", "u", "r", "l">>,
     <<"n", "o", " ", "v", "i", "d", "e", "o", " ", "f", "o", "r", "m", "a", "t", "s">>,
     <<"e", "x", "t", "r", "a", "c", "t", "o", "r">>}

\* strings.Contains(stderrLower, a) || strings.Contains(stderrLower, b) || ...
ContainsAny(text, patterns) == \E pat \in patterns : Contains(text, pat)

\* parseYtDlpError written with the permission class before the others
parseYtDlpError_PermissionFirst(text) ==
    LET stderrLower == ToLower(text)
    IN  IF ContainsAny(stderrLower, PermissionPatterns)
        THEN [Type |-> ErrorTypePermission,
              Message |-> "Access denied or permission error",
              Details |-> text, Code |-> 403]
        ELSE IF ContainsAny(stderrLower, NetworkPatterns)
        THEN [Type |-> ErrorTypeNetwork,
              Message |-> "Network error occurred during download",
              Details |-> text, Code |-> 502]
        ELSE IF ContainsAny(stderrLower, NotFoundPatterns)
        THEN [Type |-> ErrorTypeNotFound,
              Message |-> "Video not found or unavailable",
              Details |-> text, Code |-> 404]
        ELSE IF ContainsAny(stderrLower, UnsupportedPatterns)
        THEN [Type |-> ErrorTypeValidation,
              Message |-> "Unsupported URL or no extractors available",
              Details |-> text, Code |-> 400]
        ELSE [Type |-> ErrorTypeUnknown,
              Message |-> "Unknown error occurred during download",
              Details |-> text, Code |-> 500]

\* parseYtDlpError: the first class of which stderr, lowered, contains a text
parseYtDlpError(text) ==
    LET stderrLower == ToLower(text)
    IN  IF ContainsAny(stderrLower, NetworkPatterns)
        THEN [Type |-> ErrorTypeNetwork,
              Message |-> "Network error occurred during download",
              Details |-> text, Code |-> 502]
        ELSE IF ContainsAny(stderrLower, NotFoundPatterns)
        THEN [Type |-> ErrorTypeNotFound,
              Message |-> "Video not found or unavailable",
              Details |-> text, Code |-> 404]
        ELSE IF ContainsAny(stderrLower, PermissionPatterns)
        THEN [Type |-> ErrorTypePermission,
              Message |-> "Access denied or permission error",
              Details |-> text, Code |-> 403]
        ELSE IF ContainsAny(stderrLower, UnsupportedPatterns)
        THEN [Type |-> ErrorTypeValidation,
              Message |-> "Unsupported URL or no extractors available",
              Details |-> text, Code |-> 400]
        ELSE [Type |-> ErrorTypeUnknown,
              Message |-> "Unknown error occurred during download",
              Details |-> text, Code |-> 500]

----------------------------------------------------------------------------
(* VideoService: scanner *)

ExistingPrefix == "existing_"
\* Description: "Existing video file"
ExistingDescription ==
    <<"E", "x", "i", "s", "t", "i", "n", "g", " ", "v", "i", "d", "e", "o", " ",
      "f", "i", "l", "e">>

\* fmt.Sprintf("existing_%s_%d", baseFilename, info.ModTime().Unix())
ExistingId(baseFilename, attrs) ==
    <<ExistingPrefix>> \o baseFilename \o <<"_", Digit(attrs.mtime)>>

\* the callback of ScanForExistingVideos for one file
ScanVisit(vids, dsk, dir, path) ==
    LET filename == Base(path)
        ext == Ext(filename)
        baseFilename == TrimSuffix(filename, ext)
        info == Stat(dsk, path)
        videoID == ExistingId(baseFilename, info)
        video == [ID |-> videoID, Title |-> baseFilename, Filename |-> filename,
                  FilePath |-> path, FileSize |-> info.size, Duration |-> 0,
                  Thumbnail |-> findThumbnailFile(dsk, dir, baseFilename, videoID),
                  UploadDate |-> "", Uploader |-> <<>>,
                  Description |-> ExistingDescription, URL |-> "",
                  CreatedAt |-> ModTime(info)]
    IN  IF IsPartial(filename) THEN vids
        ELSE IF ~HasExtensionOf(filename, VideoExtensions) THEN vids
        ELSE IF \E v \in Values(vids) : v.FilePath = path THEN vids
        ELSE Put(vids, video)

RECURSIVE ScanWalk(_, _, _, _)
ScanWalk(vids, dsk, dir, paths) ==
    IF paths = <<>> THEN vids
    ELSE ScanWalk(ScanVisit(vids, dsk, dir, Head(paths)), dsk, dir, Tail(paths))

\* ScanForExistingVideos: the map after the walk
ScanForExistingVideos(vids, dsk, dir) == ScanWalk(vids, dsk, dir, WalkFiles(dsk, dir))

\* NewVideoService: the map after LoadMetadata and ScanForExistingVideos
NewVideoService(dsk, file, dir) ==
    ScanForExistingVideos(LoadMetadata(EmptyMap, file).videos, dsk, dir)

----------------------------------------------------------------------------
(* the environment: requests, the extractor, the download subprocess *)

Procs == {1, 2}

\* the requests that run: one at a time in the modes "seq" and "chan", two
\* concurrently in the mode "conc"
ActiveProcs == IF mode \in {"conc", "retry"} THEN Procs ELSE {1}

\* the urls clients ask for: two concurrent requests may differ in their url;
\* in the mode "hostile" the url is u3, a page whose title, chosen by its
\* uploader, names the parent directory
Urls ==
    IF mode = "conc" THEN {"u1", "u2"}
    ELSE IF mode = "hostile" THEN {"u3"}
    ELSE {"u1"}

\* the url parameter of a WebSocket request: a url of Urls, no url, or a blank
BlankUrl == " "
QueryUrls == Urls \cup {"", BlankUrl}

\* strings.TrimSpace(url) == ""
IsBlank(url) == url \in {"", BlankUrl}

NoMeta ==
    [ID |-> <<>>, Title |-> <<>>, Duration |-> 0, Uploader |-> <<>>,
     UploadDate |-> "", Description |-> <<>>]

\* what `yt-dlp --dump-json --no-download url` prints, decoded into a
\* models.VideoMetadata
MetaOf(url) ==
    IF url = "u1"
    THEN [ID |-> <<"a">>, Title |-> <<"D", "c">>, Duration |-> 1,
          Uploader |-> <<"e">>, UploadDate |-> "20240101", Description |-> <<>>]
    ELSE IF url = "u3"
    THEN [ID |-> <<"x">>, Title |-> <<".", ".", "/", "D", "c">>, Duration |-> 1,
          Uploader |-> <<>>, UploadDate |-> "", Description |-> <<>>]
    ELSE [ID |-> <<"b">>, Title |-> <<"e">>, Duration |-> 2,
          Uploader |-> <<>>, UploadDate |-> "", Description |-> <<"D">>]

Mp4 == <<".", "m", "p", "4">>
Mkv == <<".", "m", "k", "v">>
Jpg == <<".", "j", "p", "g">>

\* what a download subprocess that exits with status 0 has left in the
\* downloads directory (-o "%(title)s.%(ext)s" --write-thumbnail): the media
\* file <title><ext> of some size, with or without the thumbnail <title>.jpg;
\* or no file with an extension of the allow-list
NoArtifact == [media |-> FALSE, ext |-> <<>>, size |-> 0, thumb |-> FALSE]
Artifact(ext, thumb) == [media |-> TRUE, ext |-> ext, size |-> 2, thumb |-> thumb]
Artifacts ==
    IF mode = "seq"
    THEN {NoArtifact, Artifact(Mp4, FALSE), Artifact(Mkv, FALSE), Artifact(Mp4, TRUE)}
    ELSE {NoArtifact, Artifact(Mp4, FALSE)}

\* the name yt-dlp gives the files of a title: it writes inside the directory
\* of -P and puts the character U+29F8 where the title has a separator
BigSolidus == "U+29F8"
OutputName(title) == ReplaceAll(title, <<"/">>, <<BigSolidus>>)

\* the disk after the subprocess has written the artifact for the title
WriteArtifact(dsk, dir, clock, title, art) ==
    LET mediaPath == Abs(Join(dir, OutputName(title) \o art.ext))
        thumbPath == Abs(Join(dir, OutputName(title) \o Jpg))
        new == (IF art.media THEN {mediaPath} ELSE {})
               \cup (IF art.thumb THEN {thumbPath} ELSE {})
    IN  [f \in DOMAIN dsk \cup new |->
            IF art.media /\ f = mediaPath THEN [size |-> art.size, mtime |-> clock]
            ELSE IF art.thumb /\ f = thumbPath THEN [size |-> 1, mtime |-> clock]
            ELSE dsk[f]]

\* the lines the subprocess may write to each stream
LinesOf == IF mode = "chan" THEN MaxLines ELSE 0

\* whether the WebSocket client may go away during a download
ClientMayLeave == mode = "chan"

----------------------------------------------------------------------------
(* progress messages and errors *)

Msg(text, arg) == [text |-> text, arg |-> arg]
MsgExtracting == Msg("Extracting video information...", <<>>)
MsgStarting(title) == Msg("Starting download: ", title)
MsgCompleted == Msg("Download completed, processing metadata...", <<>>)
MsgSuccess == Msg("Video successfully downloaded and indexed!", <<>>)
MsgLine(stream, k) == Msg("line", <<stream, Digit(k)>>)
NoLine == Msg("", <<>>)

ErrExtract == "failed to extract metadata"
ErrStart == "pipe or start failed"
ErrDownload == "download failed"
ErrFind == "failed to find downloaded file"
ErrStat == "failed to get file info"
ErrSave == "failed to save metadata"
ErrVideoNotFound == "video not found"
ErrRemove == "failed to remove video file"
ErrWrite == "write metadata.json failed"
Running == "running"

----------------------------------------------------------------------------
(* per-request state *)

NoVideo ==
    [ID |-> <<>>, Title |-> <<>>, Filename |-> <<>>, FilePath |-> <<>>,
     FileSize |-> 0, Duration |-> 0, Thumbnail |-> <<>>, UploadDate |-> "",
     Uploader |-> <<>>, Description |-> <<>>, URL |-> "",
     CreatedAt |-> [wall |-> 0, mono |-> FALSE]]

NoCall ==
    [url |-> "", id |-> <<>>, metadata |-> NoMeta, file |-> <<>>,
     video |-> NoVideo, data |-> FileAbsent, ret |-> Running, query |-> <<>>,
     result |-> {}, art |-> NoArtifact, thumbErr |-> NoError, loaded |-> EmptyMap,
     pre |-> EmptyMap, preFile |-> FileAbsent, preDisk |-> EmptyMap,
     runs |-> [meta |-> 0, download |-> 0],
     key |-> "", attemptCount |-> 0, invoked |-> 0, delays |-> <<>>]

NoChan == [buf |-> <<>>, closed |-> FALSE]
NoSub == [state |-> "none", code |-> 0, out |-> 0, err |-> 0]
NoPipe == [out |-> <<>>, err |-> <<>>, readClosed |-> FALSE]
NoReader == [pc |-> "none", line |-> NoLine]
NoReaders == [out |-> NoReader, err |-> NoReader]

Streams == {"out", "err"}

ProcsAtRest ==
    /\ pc = [p \in Procs |-> "idle"]
    /\ call = [p \in Procs |-> NoCall]
    /\ chan = [p \in Procs |-> NoChan]
    /\ sent = [p \in Procs |-> <<>>]
    /\ closes = [p \in Procs |-> 0]
    /\ sub = [p \in Procs |-> NoSub]
    /\ pipe = [p \in Procs |-> NoPipe]
    /\ rd = [p \in Procs |-> NoReaders]
    /\ relay = [p \in Procs |-> "none"]
    /\ ws = [p \in Procs |-> <<>>]
    /\ panicked = FALSE
    /\ started = 0

\* a request may arrive for a handler at rest
CanStart(p) ==
    /\ p \in ActiveProcs /\ pc[p] = "idle" /\ ~panicked
    /\ started < MaxRequests

----------------------------------------------------------------------------
(* DownloadHandler.HandleWebSocket and VideoService.DownloadVideo *)

dlInfra == <<sub, pipe, rd>>

\* progressChan <- msg by DownloadVideo's own goroutine, then on to `next`:
\* blocks while the channel is full
SendProgress(p, msg, next) ==
    /\ ~panicked
    /\ Len(chan[p].buf) < ChanCap
    /\ chan' = [chan EXCEPT ![p].buf = Append(@, msg)]
    /\ sent' = [sent EXCEPT ![p] = Append(@, msg)]
    /\ pc' = [pc EXCEPT ![p] = next]
    /\ UNCHANGED <<pathVars, storeVars, envVars, call, closes, dlInfra, relay, ws, panicked>>

\* DownloadVideo written without the deferred close
ReturnFromDownload_NoClose(p, err, c) ==
    /\ call' = [call EXCEPT ![p] = [c EXCEPT !.ret = err]]
    /\ pc' = [pc EXCEPT ![p] = "dl_returned"]
    /\ UNCHANGED <<chan, closes>>

\* DownloadVideo returns err with the locals c: the deferred close(progressChan)
\* runs
ReturnFromDownload(p, err, c) ==
    /\ chan' = [chan EXCEPT ![p].closed = TRUE]
    /\ closes' = [closes EXCEPT ![p] = @ + 1]
    /\ call' = [call EXCEPT ![p] = [c EXCEPT !.ret = err]]
    /\ pc' = [pc EXCEPT ![p] = "dl_returned"]

\* HandleWebSocket with the url of the query: an empty url is answered with an
\* error message and nothing is started; otherwise the channel is made, the
\* goroutine that calls DownloadVideo is started and the relaying loop begins
HandleWebSocket(p) ==
    /\ CanStart(p)
    /\ \E u \in QueryUrls :
        IF u = ""
        THEN /\ ws' = [ws EXCEPT ![p] = <<[type |-> "error", message |-> Msg("URL is required", <<>>)]>>]
             /\ pc' = [pc EXCEPT ![p] = "ws_rejected"]
             /\ UNCHANGED <<call, chan, relay>>
        ELSE /\ call' = [call EXCEPT ![p] = [NoCall EXCEPT !.url = u, !.pre = videos,
                                                    !.preFile = metaFile,
                                                    !.preDisk = disk]]
             /\ chan' = [chan EXCEPT ![p] = NoChan]
             /\ relay' = [relay EXCEPT ![p] = "loop"]
             /\ pc' = [pc EXCEPT ![p] = "dl_extracting"]
             /\ UNCHANGED ws
    /\ started' = started + 1
    /\ UNCHANGED <<pathVars, storeVars, mode, sent, closes, dlInfra, panicked>>

\* progressChan <- "Extracting video information..."
DLExtracting(p) ==
    /\ pc[p] = "dl_extracting"
    /\ SendProgress(p, MsgExtracting, "dl_extract")

\* what yt-dlp --dump-json does with the url: for a blank url it has nothing to
\* extract and exits non-zero
ExtractOutcomes(url) ==
    IF IsBlank(url) THEN {"exit status 1"}
    ELSE {"exit status 1", "undecodable", "ok"}

\* DownloadVideo written to go on to the download when the extraction fails
DLExtract_StartsAnyway(p) ==
    /\ pc[p] = "dl_extract" /\ ~panicked
    /\ \E outcome \in ExtractOutcomes(call[p].url) :
        /\ call' = [call EXCEPT ![p].metadata =
                        IF outcome = "ok" THEN MetaOf(call[p].url) ELSE NoMeta,
                                ![p].runs.meta = @ + 1]
        /\ pc' = [pc EXCEPT ![p] = "dl_starting"]
        /\ UNCHANGED <<chan, closes>>
    /\ UNCHANGED <<pathVars, storeVars, envVars, sent, dlInfra, relay, ws, panicked>>

\* DownloadVideo written to send the extraction failure on the channel
DLExtract_ReportsFailure(p) ==
    /\ pc[p] = "dl_extract" /\ ~panicked
    /\ \E outcome \in ExtractOutcomes(call[p].url) :
        IF outcome = "ok"
        THEN /\ call' = [call EXCEPT ![p].metadata = MetaOf(call[p].url),
                                     ![p].runs.meta = @ + 1]
             /\ pc' = [pc EXCEPT ![p] = "dl_starting"]
             /\ UNCHANGED <<chan, closes, sent>>
        ELSE /\ Len(chan[p].buf) < ChanCap
             /\ chan' = [chan EXCEPT ![p].buf = Append(@, Msg(ErrExtract, <<>>)),
                                     ![p].closed = TRUE]
             /\ sent' = [sent EXCEPT ![p] = Append(@, Msg(ErrExtract, <<>>))]
             /\ closes' = [closes EXCEPT ![p] = @ + 1]
             /\ call' = [call EXCEPT ![p].ret = ErrExtract, ![p].runs.meta = @ + 1]
             /\ pc' = [pc EXCEPT ![p] = "dl_returned"]
    /\ UNCHANGED <<pathVars, storeVars, envVars, dlInfra, relay, ws, panicked>>

\* models.ExtractVideoMetadata: yt-dlp --dump-json is run once; it exits
\* non-zero, or prints what cannot be decoded, or prints the metadata
DLExtract(p) ==
    /\ pc[p] = "dl_extract" /\ ~panicked
    /\ \E outcome \in ExtractOutcomes(call[p].url) :
        IF outcome = "ok"
        THEN /\ call' = [call EXCEPT ![p].metadata = MetaOf(call[p].url),
                                     ![p].runs.meta = @ + 1]
             /\ pc' = [pc EXCEPT ![p] = "dl_starting"]
             /\ UNCHANGED <<chan, closes>>
        ELSE ReturnFromDownload(p, ErrExtract,
                                [call[p] EXCEPT !.runs.meta = @ + 1])
    /\ UNCHANGED <<pathVars, storeVars, envVars, sent, dlInfra, relay, ws, panicked>>

\* progressChan <- "Starting download: <title>"
DLStarting(p) ==
    /\ pc[p] = "dl_starting"
    /\ SendProgress(p, MsgStarting(call[p].metadata.Title), "dl_start")

\* cmd.StdoutPipe, cmd.StderrPipe, cmd.Start, and the two streaming goroutines:
\* the download is run once; when a pipe cannot be made it is not run, when
\* cmd.Start fails it was run and did not start
DLStart(p) ==
    /\ pc[p] = "dl_start" /\ ~panicked
    /\ \E ok \in BOOLEAN :
        IF ok
        THEN /\ sub' = [sub EXCEPT ![p] = [NoSub EXCEPT !.state = "running"]]
             /\ pipe' = [pipe EXCEPT ![p] = NoPipe]
             /\ rd' = [rd EXCEPT ![p] = [out |-> [pc |-> "scan", line |-> NoLine],
                                         err |-> [pc |-> "scan", line |-> NoLine]]]
             /\ pc' = [pc EXCEPT ![p] = "dl_wait"]
             /\ call' = [call EXCEPT ![p].runs.download = @ + 1]
             /\ UNCHANGED <<chan, closes>>
        ELSE /\ \E run \in {0, 1} :
                    ReturnFromDownload(p, ErrStart,
                                       [call[p] EXCEPT !.runs.download = @ + run])
             /\ UNCHANGED dlInfra
    /\ UNCHANGED <<pathVars, storeVars, envVars, sent, relay, ws, panicked>>

\* the subprocess writes one more line to a stream: blocks while the pipe is
\* full
SubWrite(p, stream) ==
    /\ sub[p].state = "running" /\ ~panicked
    /\ sub[p][stream] < LinesOf
    /\ ~pipe[p].readClosed
    /\ Len(pipe[p][stream]) < PipeCap
    /\ pipe' = [pipe EXCEPT ![p][stream] = Append(@, MsgLine(stream, sub[p][stream] + 1))]
    /\ sub' = [sub EXCEPT ![p][stream] = @ + 1]
    /\ UNCHANGED <<pathVars, storeVars, envVars, pc, call, chan, sent, closes, rd, relay, ws, panicked>>

\* the subprocess exits: with status 0 it has left its artifact on disk
SubExit(p) ==
    /\ sub[p].state = "running" /\ ~panicked
    /\ \E code \in {0, 1} :
        /\ sub' = [sub EXCEPT ![p].state = "exited", ![p].code = code]
        /\ IF code = 0
           THEN \E art \in Artifacts :
                    /\ disk' = WriteArtifact(disk, DownloadsDir, now,
                                             call[p].metadata.Title, art)
                    /\ call' = [call EXCEPT ![p].art = art]
           ELSE UNCHANGED <<disk, call>>
    /\ UNCHANGED <<pathVars, videos, metaFile, now, envVars, pc, chan, sent, closes, pipe, rd, relay, ws, panicked>>

\* the subprocess stops making progress and will never exit by itself
SubHang(p) ==
    /\ sub[p].state = "running" /\ ~panicked
    /\ sub' = [sub EXCEPT ![p].state = "hung"]
    /\ UNCHANGED <<pathVars, storeVars, envVars, pc, call, chan, sent, closes, pipe, rd, relay, ws, panicked>>

\* scanner.Scan() of a streaming goroutine: a line of the pipe, or false at
\* end of file (the subprocess has exited and the pipe is empty) and once
\* cmd.Wait has closed the pipe
ReaderScan(p, stream) ==
    /\ rd[p][stream].pc = "scan" /\ ~panicked
    /\ IF pipe[p].readClosed
       THEN /\ rd' = [rd EXCEPT ![p][stream] = [pc |-> "done", line |-> NoLine]]
            /\ UNCHANGED pipe
       ELSE IF pipe[p][stream] # <<>>
       THEN /\ rd' = [rd EXCEPT ![p][stream] = [pc |-> "send", line |-> Head(pipe[p][stream])]]
            /\ pipe' = [pipe EXCEPT ![p][stream] = Tail(@)]
       ELSE /\ sub[p].state = "exited"
            /\ rd' = [rd EXCEPT ![p][stream] = [pc |-> "done", line |-> NoLine]]
            /\ UNCHANGED pipe
    /\ UNCHANGED <<pathVars, storeVars, envVars, pc, call, chan, sent, closes, sub, relay, ws, panicked>>

\* progressChan <- scanner.Text() of a streaming goroutine: blocks while the
\* channel is full, panics once the channel is closed
ReaderSend(p, stream) ==
    /\ rd[p][stream].pc = "send" /\ ~panicked
    /\ IF chan[p].closed
       THEN /\ panicked' = TRUE
            /\ UNCHANGED <<chan, sent, rd>>
       ELSE /\ Len(chan[p].buf) < ChanCap
            /\ chan' = [chan EXCEPT ![p].buf = Append(@, rd[p][stream].line)]
            /\ sent' = [sent EXCEPT ![p] = Append(@, rd[p][stream].line)]
            /\ rd' = [rd EXCEPT ![p][stream] = [pc |-> "scan", line |-> NoLine]]
            /\ UNCHANGED panicked
    /\ UNCHANGED <<pathVars, storeVars, envVars, pc, call, closes, sub, pipe, relay, ws>>

\* DownloadVideo written to run the download once more when it has failed
DLWait_RunsAgain(p) ==
    /\ pc[p] = "dl_wait" /\ ~panicked
    /\ sub[p].state = "exited"
    /\ pipe' = [pipe EXCEPT ![p].readClosed = TRUE]
    /\ IF sub[p].code # 0
       THEN IF call[p].runs.download < 2
            THEN /\ pc' = [pc EXCEPT ![p] = "dl_start"]
                 /\ UNCHANGED <<call, chan, closes>>
            ELSE ReturnFromDownload(p, ErrDownload, call[p])
       ELSE /\ pc' = [pc EXCEPT ![p] = "dl_completed"]
            /\ UNCHANGED <<call, chan, closes>>
    /\ UNCHANGED <<pathVars, storeVars, envVars, sent, sub, rd, relay, ws, panicked>>

\* cmd.Wait: returns once the subprocess has exited, closes the read ends of
\* the pipes; a non-zero status is the error "download failed"
DLWait(p) ==
    /\ pc[p] = "dl_wait" /\ ~panicked
    /\ sub[p].state = "exited"
    /\ pipe' = [pipe EXCEPT ![p].readClosed = TRUE]
    /\ IF sub[p].code # 0
       THEN ReturnFromDownload(p, ErrDownload, call[p])
       ELSE /\ pc' = [pc EXCEPT ![p] = "dl_completed"]
            /\ UNCHANGED <<call, chan, closes>>
    /\ UNCHANGED <<pathVars, storeVars, envVars, sent, sub, rd, relay, ws, panicked>>

\* progressChan <- "Download completed, processing metadata..."
DLCompleted(p) ==
    /\ pc[p] = "dl_completed"
    /\ SendProgress(p, MsgCompleted, "dl_find")

\* vs.findDownloadedFile(metadata.Title, metadata.ID)
DLFind(p) ==
    /\ pc[p] = "dl_find" /\ ~panicked
    /\ LET r == findDownloadedFile(disk, DownloadsDir, now,
                                   call[p].metadata.Title, call[p].metadata.ID)
       IN  IF r.err # NoError
           THEN ReturnFromDownload(p, ErrFind, call[p])
           ELSE /\ call' = [call EXCEPT ![p].file = r.path]
                /\ pc' = [pc EXCEPT ![p] = "dl_stat"]
                /\ UNCHANGED <<chan, closes>>
    /\ UNCHANGED <<pathVars, storeVars, envVars, sent, dlInfra, relay, ws, panicked>>

\* the models.Video DownloadVideo builds from the metadata and the file found
BuildVideo(m, url, file, info, thumbnail, clock) ==
    [ID |-> m.ID, Title |-> m.Title, Filename |-> Base(file), FilePath |-> file,
     FileSize |-> info.size, Duration |-> m.Duration, Thumbnail |-> thumbnail,
     UploadDate |-> m.UploadDate, Uploader |-> m.Uploader,
     Description |-> m.Description, URL |-> url, CreatedAt |-> TimeNow(clock)]

\* os.Stat(downloadedFile) and the video record
DLStat(p) ==
    /\ pc[p] = "dl_stat" /\ ~panicked
    /\ IF ~StatOk(disk, call[p].file)
       THEN ReturnFromDownload(p, ErrStat, call[p])
       ELSE /\ call' = [call EXCEPT ![p].video =
                          BuildVideo(call[p].metadata, call[p].url, call[p].file,
                                     Stat(disk, call[p].file),
                                     findThumbnailFile(disk, DownloadsDir,
                                                       call[p].metadata.Title,
                                                       call[p].metadata.ID),
                                     now)]
            /\ pc' = [pc EXCEPT ![p] = "dl_commit"]
            /\ UNCHANGED <<chan, closes>>
    /\ UNCHANGED <<pathVars, storeVars, envVars, sent, dlInfra, relay, ws, panicked>>

\* vs.videos[video.ID] = video
DLCommit(p) ==
    /\ pc[p] = "dl_commit" /\ ~panicked
    /\ videos' = Put(videos, call[p].video)
    /\ pc' = [pc EXCEPT ![p] = "dl_marshal"]
    /\ UNCHANGED <<pathVars, metaFile, disk, now, envVars, call, chan, sent, closes, dlInfra, relay, ws, panicked>>

\* SaveMetadata, first half: the map is read and marshalled
DLMarshal(p) ==
    /\ pc[p] = "dl_marshal" /\ ~panicked
    /\ call' = [call EXCEPT ![p].data = MarshalVideos(videos)]
    /\ pc' = [pc EXCEPT ![p] = "dl_write"]
    /\ UNCHANGED <<pathVars, storeVars, envVars, chan, sent, closes, dlInfra, relay, ws, panicked>>

\* os.WriteFile(vs.MetadataFile, data): the file is written; or it cannot be
\* opened and stays as it is; or it is truncated and the write fails
WriteOutcomes == {"written", "not opened", "truncated"}
WriteFile(file, data, outcome) ==
    CASE outcome = "written" -> data
      [] outcome = "not opened" -> file
      [] outcome = "truncated" -> FileCorrupt

\* SaveMetadata, second half, and the return of its error
DLWrite(p) ==
    /\ pc[p] = "dl_write" /\ ~panicked
    /\ \E outcome \in WriteOutcomes :
        /\ metaFile' = WriteFile(metaFile, call[p].data, outcome)
        /\ IF outcome = "written"
           THEN /\ pc' = [pc EXCEPT ![p] = "dl_success"]
                /\ UNCHANGED <<call, chan, closes>>
           ELSE ReturnFromDownload(p, ErrSave, call[p])
    /\ UNCHANGED <<pathVars, videos, disk, now, envVars, sent, dlInfra, relay, ws, panicked>>

\* progressChan <- "Video successfully downloaded and indexed!"
DLSuccess(p) ==
    /\ pc[p] = "dl_success"
    /\ SendProgress(p, MsgSuccess, "dl_return")

\* return nil
DLReturn(p) ==
    /\ pc[p] = "dl_return" /\ ~panicked
    /\ ReturnFromDownload(p, NoError, call[p])
    /\ UNCHANGED <<pathVars, storeVars, envVars, sent, dlInfra, relay, ws, panicked>>

\* the goroutine of HandleWebSocket after DownloadVideo has returned:
\* conn.WriteJSON of the error or of "complete" (lost once the connection is
\* closed)
DLReport(p) ==
    /\ pc[p] = "dl_returned" /\ ~panicked
    /\ ws' = [ws EXCEPT ![p] =
                IF relay[p] = "stopped" THEN @
                ELSE IF call[p].ret # NoError
                THEN Append(@, [type |-> "error", message |-> Msg(call[p].ret, <<>>)])
                ELSE Append(@, [type |-> "complete", message |-> NoLine])]
    /\ pc' = [pc EXCEPT ![p] = "dl_done"]
    /\ UNCHANGED <<pathVars, storeVars, envVars, call, chan, sent, closes, dlInfra, relay, panicked>>

\* the relaying loop receives from progressChan: a message is written to the
\* WebSocket as "progress" (the loop returns if the write fails); a closed and
\* drained channel ends the loop. The deferred conn.Close runs on return.
RelayReceive(p) ==
    /\ relay[p] = "loop" /\ ~panicked
    /\ IF chan[p].buf # <<>>
       THEN /\ chan' = [chan EXCEPT ![p].buf = Tail(@)]
            /\ \E written \in (IF ClientMayLeave THEN BOOLEAN ELSE {TRUE}) :
                IF written
                THEN /\ ws' = [ws EXCEPT ![p] = Append(@, [type |-> "progress",
                                                            message |-> Head(chan[p].buf)])]
                     /\ UNCHANGED relay
                ELSE /\ relay' = [relay EXCEPT ![p] = "stopped"]
                     /\ UNCHANGED ws
       ELSE /\ chan[p].closed
            /\ relay' = [relay EXCEPT ![p] = "stopped"]
            /\ UNCHANGED <<chan, ws>>
    /\ UNCHANGED <<pathVars, storeVars, envVars, pc, call, sent, closes, dlInfra, panicked>>

\* the relaying loop's 30 second timer fires and the ping cannot be written
RelayPingFails(p) ==
    /\ relay[p] = "loop" /\ ~panicked
    /\ ClientMayLeave
    /\ chan[p].buf = <<>> /\ ~chan[p].closed
    /\ relay' = [relay EXCEPT ![p] = "stopped"]
    /\ UNCHANGED <<pathVars, storeVars, envVars, pc, call, chan, sent, closes, dlInfra, ws, panicked>>

----------------------------------------------------------------------------
(* VideoHandler.HandleVideoDelete and VideoService.DeleteVideo *)

\* the ids a client may ask for: the ids of the extractor, the ids in the
\* store, and an id that is in neither
RequestIds == {<<"a">>, <<"b">>, <<"z">>} \cup DOMAIN videos

\* HandleVideoDelete with the id of the query: an empty id is answered with
\* 400, otherwise DeleteVideo is called
HandleVideoDelete(p) ==
    /\ CanStart(p)
    /\ \E id \in RequestIds \cup {<<>>} :
        /\ call' = [call EXCEPT ![p] = [NoCall EXCEPT !.id = id, !.pre = videos,
                                               !.preFile = metaFile,
                                               !.preDisk = disk]]
        /\ pc' = [pc EXCEPT ![p] = IF id = <<>> THEN "del_rejected" ELSE "del_lookup"]
    /\ started' = started + 1
    /\ UNCHANGED <<pathVars, storeVars, mode, chan, sent, closes, dlInfra, relay, ws, panicked>>

\* DeleteVideo returns err
ReturnFromDelete(p, err) ==
    /\ call' = [call EXCEPT ![p].ret = err]
    /\ pc' = [pc EXCEPT ![p] = "del_done"]

\* video, exists := vs.videos[id]
DelLookup(p) ==
    /\ pc[p] = "del_lookup" /\ ~panicked
    /\ IF call[p].id \notin DOMAIN videos
       THEN ReturnFromDelete(p, ErrVideoNotFound)
       ELSE /\ call' = [call EXCEPT ![p].video = videos[call[p].id]]
            /\ pc' = [pc EXCEPT ![p] = "del_remove_video"]
    /\ UNCHANGED <<pathVars, storeVars, envVars, chan, sent, closes, dlInfra, relay, ws, panicked>>

\* os.Remove(path): the file is removed, or the removal fails (no permission)
\* and the file stays; a file that does not exist is the error IsNotExist
RemoveResults(dsk, path) ==
    IF ~StatOk(dsk, path) THEN {[err |-> "not exist", disk |-> dsk]}
    ELSE {[err |-> NoError, disk |-> [f \in DOMAIN dsk \ {Abs(path)} |-> dsk[f]]],
          [err |-> "permission denied", disk |-> dsk]}

\* DeleteVideo written to go on when the video file cannot be removed
DelRemoveVideo_IgnoreError(p) ==
    /\ pc[p] = "del_remove_video" /\ ~panicked
    /\ \E r \in RemoveResults(disk, call[p].video.FilePath) : disk' = r.disk
    /\ pc' = [pc EXCEPT ![p] = "del_remove_thumbnail"]
    /\ UNCHANGED <<pathVars, videos, metaFile, now, envVars, call, chan, sent, closes, dlInfra, relay, ws, panicked>>

\* DeleteVideo written to return the error of a video file that does not exist
DelRemoveVideo_SurfaceMissing(p) ==
    /\ pc[p] = "del_remove_video" /\ ~panicked
    /\ \E r \in RemoveResults(disk, call[p].video.FilePath) :
        /\ disk' = r.disk
        /\ IF r.err # NoError
           THEN ReturnFromDelete(p, ErrRemove)
           ELSE /\ pc' = [pc EXCEPT ![p] = "del_remove_thumbnail"]
                /\ UNCHANGED call
    /\ UNCHANGED <<pathVars, videos, metaFile, now, envVars, chan, sent, closes, dlInfra, relay, ws, panicked>>

\* os.Remove(video.FilePath): an error other than IsNotExist is returned
DelRemoveVideo(p) ==
    /\ pc[p] = "del_remove_video" /\ ~panicked
    /\ \E r \in RemoveResults(disk, call[p].video.FilePath) :
        /\ disk' = r.disk
        /\ IF r.err # NoError /\ r.err # "not exist"
           THEN ReturnFromDelete(p, ErrRemove)
           ELSE /\ pc' = [pc EXCEPT ![p] = "del_remove_thumbnail"]
                /\ UNCHANGED call
    /\ UNCHANGED <<pathVars, videos, metaFile, now, envVars, chan, sent, closes, dlInfra, relay, ws, panicked>>

\* if video.Thumbnail != "" { os.Remove(video.Thumbnail) }, errors ignored
DelRemoveThumbnail(p) ==
    /\ pc[p] = "del_remove_thumbnail" /\ ~panicked
    /\ IF call[p].video.Thumbnail # <<>>
       THEN \E r \in RemoveResults(disk, call[p].video.Thumbnail) :
                /\ disk' = r.disk
                /\ call' = [call EXCEPT ![p].thumbErr = r.err]
       ELSE UNCHANGED <<disk, call>>
    /\ pc' = [pc EXCEPT ![p] = "del_map"]
    /\ UNCHANGED <<pathVars, videos, metaFile, now, envVars, chan, sent, closes, dlInfra, relay, ws, panicked>>

\* delete(vs.videos, id)
DelMap(p) ==
    /\ pc[p] = "del_map" /\ ~panicked
    /\ videos' = Remove(videos, call[p].id)
    /\ pc' = [pc EXCEPT ![p] = "del_marshal"]
    /\ UNCHANGED <<pathVars, metaFile, disk, now, envVars, call, chan, sent, closes, dlInfra, relay, ws, panicked>>

\* SaveMetadata, first half
DelMarshal(p) ==
    /\ pc[p] = "del_marshal" /\ ~panicked
    /\ call' = [call EXCEPT ![p].data = MarshalVideos(videos)]
    /\ pc' = [pc EXCEPT ![p] = "del_write"]
    /\ UNCHANGED <<pathVars, storeVars, envVars, chan, sent, closes, dlInfra, relay, ws, panicked>>

\* return vs.SaveMetadata(), second half
DelWrite(p) ==
    /\ pc[p] = "del_write" /\ ~panicked
    /\ \E outcome \in WriteOutcomes :
        /\ metaFile' = WriteFile(metaFile, call[p].data, outcome)
        /\ ReturnFromDelete(p, IF outcome = "written" THEN NoError ELSE ErrWrite)
    /\ UNCHANGED <<pathVars, videos, disk, now, envVars, chan, sent, closes, dlInfra, relay, ws, panicked>>

----------------------------------------------------------------------------
(* VideoHandler.HandleVideoList: SearchVideos and GetAllVideos *)

\* the q parameter of a listing: none, or text in lower or upper case
Queries == {<<>>, <<"d">>, <<"E">>, <<"x">>}

\* the handler starts to read the map
HandleVideoList(p) ==
    /\ CanStart(p)
    /\ \E q \in Queries :
        call' = [call EXCEPT ![p] = [NoCall EXCEPT !.query = q, !.pre = videos]]
    /\ pc' = [pc EXCEPT ![p] = "list_read"]
    /\ started' = started + 1
    /\ UNCHANGED <<pathVars, storeVars, mode, chan, sent, closes, dlInfra, relay, ws, panicked>>

\* the loop over the map of SearchVideos (of GetAllVideos for an empty query)
\* has run
ListRead(p) ==
    /\ pc[p] = "list_read" /\ ~panicked
    /\ call' = [call EXCEPT ![p].result =
                    IF call[p].query # <<>> THEN SearchVideos(videos, call[p].query)
                    ELSE GetAllVideos(videos),
                            ![p].ret = NoError]
    /\ pc' = [pc EXCEPT ![p] = "list_done"]
    /\ UNCHANGED <<pathVars, storeVars, envVars, chan, sent, closes, dlInfra, relay, ws, panicked>>

----------------------------------------------------------------------------
(* a restart of the server: NewVideoService *)

\* the server is stopped and started again: the map is made anew
Restart(p) ==
    /\ CanStart(p)
    /\ \A q \in Procs : pc[q] = "idle"
    /\ call' = [call EXCEPT ![p] = [NoCall EXCEPT !.pre = videos,
                                           !.preFile = metaFile,
                                           !.preDisk = disk]]
    /\ videos' = EmptyMap
    /\ pc' = [pc EXCEPT ![p] = "boot_load"]
    /\ started' = started + 1
    /\ UNCHANGED <<pathVars, metaFile, disk, now, mode, chan, sent, closes, dlInfra, relay, ws, panicked>>

\* vs.LoadMetadata(): its error is dropped
BootLoad(p) ==
    /\ pc[p] = "boot_load" /\ ~panicked
    /\ LET r == LoadMetadata(videos, metaFile)
       IN  /\ videos' = r.videos
           /\ call' = [call EXCEPT ![p].ret = r.err, ![p].loaded = r.videos]
    /\ pc' = [pc EXCEPT ![p] = "boot_scan"]
    /\ UNCHANGED <<pathVars, metaFile, disk, now, envVars, chan, sent, closes, dlInfra, relay, ws, panicked>>

\* vs.ScanForExistingVideos()
BootScan(p) ==
    /\ pc[p] = "boot_scan" /\ ~panicked
    /\ videos' = ScanForExistingVideos(videos, disk, DownloadsDir)
    /\ pc' = [pc EXCEPT ![p] = "boot_done"]
    /\ UNCHANGED <<pathVars, metaFile, disk, now, envVars, call, chan, sent, closes, dlInfra, relay, ws, panicked>>

BootSteps(p) == Restart(p) \/ BootLoad(p) \/ BootScan(p)

----------------------------------------------------------------------------
(* time, and the end of a request *)

\* ten minutes pass between two requests
Tick ==
    /\ now < MaxClock /\ ~panicked
    /\ \A p \in Procs : pc[p] = "idle"
    /\ now' = now + 1
    /\ UNCHANGED <<pathVars, videos, metaFile, disk, envVars, procVars>>

ReadersFinished(p) == \A st \in Streams : rd[p][st].pc \in {"none", "done"}

\* the request is over and all its goroutines have ended
Finish(p) ==
    /\ ~panicked
    /\ \/ pc[p] \in {"ws_rejected", "del_rejected", "del_done", "list_done", "boot_done",
                    "scan_done", "located", "stream_done", "load_done", "rm_done"}
       \/ pc[p] = "dl_done" /\ relay[p] = "stopped" /\ ReadersFinished(p)
    /\ pc' = [pc EXCEPT ![p] = "idle"]
    /\ call' = [call EXCEPT ![p] = NoCall]
    /\ chan' = [chan EXCEPT ![p] = NoChan]
    /\ sent' = [sent EXCEPT ![p] = <<>>]
    /\ closes' = [closes EXCEPT ![p] = 0]
    /\ sub' = [sub EXCEPT ![p] = NoSub]
    /\ pipe' = [pipe EXCEPT ![p] = NoPipe]
    /\ rd' = [rd EXCEPT ![p] = NoReaders]
    /\ relay' = [relay EXCEPT ![p] = "none"]
    /\ ws' = [ws EXCEPT ![p] = <<>>]
    /\ UNCHANGED <<pathVars, storeVars, envVars, panicked>>

----------------------------------------------------------------------------
(* specifications *)

DefaultDownloadsDir == <<".", "/", "d">>

\* the files on disk when the server starts: none, or a media file of an
\* earlier run in the downloads directory, or a media file in the working
\* directory of the server, the parent of the downloads directory
OldFile == Abs(Join(DefaultDownloadsDir, <<"D", "c">> \o Mp4))
OutsideFile == Abs(<<"D", "c">> \o Mp4)
InitialDisks(m) ==
    IF m = "seq"
    THEN {EmptyMap, [f \in {OldFile} |-> [size |-> 1, mtime |-> 0]]}
    ELSE IF m = "hostile"
    THEN {EmptyMap, [f \in {OutsideFile} |-> [size |-> 1, mtime |-> 0]]}
    ELSE {EmptyMap}

\* the metadata.json the server finds when it starts: none; or, in the mode
\* "hostile", the file an earlier run saved after the download of u1, whose
\* media file and thumbnail have since been taken out of the directory
OldEntry ==
    BuildVideo(MetaOf("u1"), "u1", Join(DefaultDownloadsDir, <<"D", "c">> \o Mp4),
               [size |-> 2, mtime |-> 0],
               Join(DefaultDownloadsDir, <<"D", "c">> \o Jpg), 0)
InitialMetaFiles(m) ==
    IF m = "hostile" THEN {FileAbsent, MarshalVideos(Put(EmptyMap, OldEntry))}
    ELSE {FileAbsent}

\* the state when NewVideoService has returned
InitStore(m) ==
    /\ mode = m
    /\ DownloadsDir = DefaultDownloadsDir
    /\ requested = <<>>
    /\ spResult = NoResult
    /\ stderr = <<>> /\ downloadError = NoDownloadError
    /\ attempts = EmptyMap
    /\ now = 1
    /\ disk \in InitialDisks(m)
    /\ metaFile \in InitialMetaFiles(m)
    /\ videos = NewVideoService(disk, metaFile, DownloadsDir)
    /\ ProcsAtRest

DownloadSteps(p) ==
    \/ HandleWebSocket(p)
    \/ DLExtracting(p)
    \/ DLExtract(p)
    \/ DLStarting(p)
    \/ DLStart(p)
    \/ SubExit(p)
    \/ SubHang(p)
    \/ DLWait(p)
    \/ DLCompleted(p)
    \/ DLFind(p)
    \/ DLStat(p)
    \/ DLCommit(p)
    \/ DLMarshal(p)
    \/ DLWrite(p)
    \/ DLSuccess(p)
    \/ DLReturn(p)
    \/ DLReport(p)
    \/ RelayReceive(p)
    \/ \E st \in Streams : ReaderScan(p, st)

DeleteSteps(p) ==
    \/ HandleVideoDelete(p)
    \/ DelLookup(p)
    \/ DelRemoveVideo(p)
    \/ DelRemoveThumbnail(p)
    \/ DelMap(p)
    \/ DelMarshal(p)
    \/ DelWrite(p)

ListSteps(p) == HandleVideoList(p) \/ ListRead(p)

LineSteps(p) ==
    \/ \E st \in Streams : SubWrite(p, st)
    \/ \E st \in Streams : ReaderSend(p, st)
    \/ RelayPingFails(p)

\* the relaying loop or a streaming goroutine of some request can take a step
HelpersCanStep ==
    \E p \in Procs :
        \/ relay[p] = "loop" /\ (chan[p].buf # <<>> \/ chan[p].closed)
        \/ \E st \in Streams :
              /\ rd[p][st].pc = "scan"
              /\ pipe[p].readClosed \/ pipe[p][st] # <<>> \/ sub[p].state = "exited"

\* The relaying loop and the streaming goroutines touch only the channel, the
\* pipes and the WebSocket. Where the subprocess writes no lines, the
\* specifications of the store let them run as soon as they can, before the
\* next statement of a service call; SpecChan explores every interleaving.
StoreSteps(p) ==
    \/ RelayReceive(p)
    \/ \E st \in Streams : ReaderScan(p, st)
    \/ /\ ~HelpersCanStep
       /\ \/ HandleWebSocket(p)
          \/ DLExtracting(p)
          \/ DLExtract(p)
          \/ DLStarting(p)
          \/ DLStart(p)
          \/ SubExit(p)
          \/ SubHang(p)
          \/ DLWait(p)
          \/ DLCompleted(p)
          \/ DLFind(p)
          \/ DLStat(p)
          \/ DLCommit(p)
          \/ DLMarshal(p)
          \/ DLWrite(p)
          \/ DLSuccess(p)
          \/ DLReturn(p)
          \/ DLReport(p)
          \/ DeleteSteps(p)
          \/ ListSteps(p)

\* requests one at a time: downloads, deletes and listings
Next ==
    \/ \E p \in Procs : StoreSteps(p) \/ BootSteps(p) \/ Finish(p)
    \/ Tick

Spec == InitStore("seq") /\ [][Next]_vars

\* one request at a time, for a page with a hostile title
SpecHostile == InitStore("hostile") /\ [][Next]_vars

\* one download whose subprocess writes output and whose client may go away
NextChan == \E p \in Procs : DownloadSteps(p) \/ LineSteps(p)

SpecChan == InitStore("chan") /\ [][NextChan]_vars

\* two requests at a time
NextConc == \E p \in Procs : StoreSteps(p)

SpecConc == InitStore("conc") /\ [][NextConc]_vars

\* calls of SecurePath alone
\* the -downloads flag: the default "./d", an absolute directory, and an
\* absolute directory below the working directory
DownloadsDirChoices ==
    { <<".", "/", "d">>, <<"/", "d">>, <<"/", "w", "/", "d">> }

PathAlphabet == {".", "/", "d", "x"}

InitPath ==
    /\ DownloadsDir \in DownloadsDirChoices
    /\ requested = <<>>
    /\ spResult = NoResult
    /\ stderr = <<>> /\ downloadError = NoDownloadError
    /\ attempts = EmptyMap
    /\ mode = "path"
    /\ videos = EmptyMap /\ metaFile = FileAbsent /\ disk = EmptyMap /\ now = 1
    /\ ProcsAtRest

\* a request arrives: its path segment is any string over PathAlphabet, read
\* one character at a time
ReceivePath ==
    /\ spResult = NoResult
    /\ Len(requested) < MaxLen
    /\ \E c \in PathAlphabet : requested' = Append(requested, c)
    /\ UNCHANGED <<DownloadsDir, spResult, classVars, storeVars, envVars, procVars>>

\* the call of SecurePath with the caller-supplied path
SecurePathCall ==
    /\ spResult = NoResult
    /\ spResult' = SecurePath(DownloadsDir, requested)
    /\ UNCHANGED <<DownloadsDir, requested, classVars, storeVars, envVars, procVars>>

NextPath == ReceivePath \/ SecurePathCall

SpecPath == InitPath /\ [][NextPath]_vars

\* requests to the route GET /videos/<path> of the two servers

\* the base directory of cmd/web ("./videos" in the code)
WebBaseDir == <<".", "/", "v">>

\* the answers of the route: fields err (the status, NoError when a file is
\* served) and path (the path given to os.Stat or http.ServeFile, <<>> when
\* nothing is opened)
StatusBadRequest == "400"
StatusMoved == "301"
StatusNotFound == "404"

\* http.ServeFile(w, r, name): a url path with a ".." element is answered with
\* 400 before anything is opened, otherwise name is opened
ServeFile(urlRest, name) ==
    IF \E i \in 1..Len(SplitPath(urlRest)) : SplitPath(urlRest)[i] = DotDot
    THEN [err |-> StatusBadRequest, path |-> <<>>]
    ELSE [err |-> NoError, path |-> name]

InitServe ==
    /\ DownloadsDir \in DownloadsDirChoices
    /\ requested = <<>>
    /\ spResult = NoResult
    /\ stderr = <<>> /\ downloadError = NoDownloadError
    /\ attempts = EmptyMap
    /\ mode = "serve"
    /\ videos = EmptyMap /\ metaFile = FileAbsent /\ disk = EmptyMap /\ now = 1
    /\ ProcsAtRest

\* the /videos/ handler of cmd/web written without the test for ".."
VideosHandlerWeb_SlashOnly ==
    /\ spResult = NoResult /\ pc[1] = "idle"
    /\ LET relPath == requested
           targetPath == Join(WebBaseDir, relPath)
       IN  IF Contains(relPath, <<Separator>>)
           THEN spResult' = [err |-> StatusBadRequest, path |-> <<>>]
           ELSE \E found \in {"absent", "directory", "file"} :
                   spResult' =
                       IF found = "absent"
                       THEN [err |-> StatusNotFound, path |-> targetPath]
                       ELSE IF found = "directory"
                       THEN [err |-> StatusBadRequest, path |-> targetPath]
                       ELSE [ServeFile(relPath, targetPath) EXCEPT !.path = targetPath]
    /\ pc' = [pc EXCEPT ![1] = "videos_web_done"]
    /\ UNCHANGED <<DownloadsDir, requested, classVars, storeVars, envVars,
                   call, chan, sent, closes, sub, pipe, rd, relay, ws, panicked>>

\* the /videos/ handler of cmd/web: a path with ".." or "/" is answered with
\* 400; otherwise os.Stat(baseDir/relPath), then 404, 400 for a directory, or
\* http.ServeFile
VideosHandlerWeb ==
    /\ spResult = NoResult /\ pc[1] = "idle"
    /\ LET relPath == requested
           targetPath == Join(WebBaseDir, relPath)
       IN  IF Contains(relPath, DotDot) \/ Contains(relPath, <<Separator>>)
           THEN spResult' = [err |-> StatusBadRequest, path |-> <<>>]
           ELSE \E found \in {"absent", "directory", "file"} :
                   spResult' =
                       IF found = "absent"
                       THEN [err |-> StatusNotFound, path |-> targetPath]
                       ELSE IF found = "directory"
                       THEN [err |-> StatusBadRequest, path |-> targetPath]
                       ELSE [ServeFile(relPath, targetPath) EXCEPT !.path = targetPath]
    /\ pc' = [pc EXCEPT ![1] = "videos_web_done"]
    /\ UNCHANGED <<DownloadsDir, requested, classVars, storeVars, envVars,
                   call, chan, sent, closes, sub, pipe, rd, relay, ws, panicked>>

\* the legacy /videos/ handler of the router: an empty path is redirected, a
\* path SecurePath rejects is answered with 400, otherwise http.ServeFile of
\* the path SecurePath returned
VideosHandlerLegacy ==
    /\ spResult = NoResult /\ pc[1] = "idle"
    /\ LET path == requested
           sp == SecurePath(DownloadsDir, path)
       IN  spResult' =
               IF path = <<>> THEN [err |-> StatusMoved, path |-> <<>>]
               ELSE IF sp.err # NoError THEN [err |-> StatusBadRequest, path |-> <<>>]
               ELSE ServeFile(path, Abs(sp.path))
    /\ pc' = [pc EXCEPT ![1] = "videos_legacy_done"]
    /\ UNCHANGED <<DownloadsDir, requested, classVars, storeVars, envVars,
                   call, chan, sent, closes, sub, pipe, rd, relay, ws, panicked>>

NextServe == ReceivePath \/ VideosHandlerWeb \/ VideosHandlerLegacy

SpecServe == InitServe /\ [][NextServe]_vars

\* calls of SanitizeFilename alone
\* the characters SanitizeFilename replaces, the dot and a letter
NameAlphabet == {"/", "\\", ":", "*", "?", "\"", "<", ">", "|", ".", "d"}

InitName ==
    /\ DownloadsDir = DefaultDownloadsDir
    /\ requested = <<>>
    /\ spResult = NoResult
    /\ stderr = <<>> /\ downloadError = NoDownloadError
    /\ attempts = EmptyMap
    /\ mode = "name"
    /\ videos = EmptyMap /\ metaFile = FileAbsent /\ disk = EmptyMap /\ now = 1
    /\ ProcsAtRest

\* a filename is any string over NameAlphabet, read one character at a time
ReceiveName ==
    /\ spResult = NoResult
    /\ Len(requested) < MaxName
    /\ \E c \in NameAlphabet : requested' = Append(requested, c)
    /\ UNCHANGED <<DownloadsDir, spResult, classVars, storeVars, envVars, procVars>>

\* the call of models.SanitizeFilename
SanitizeCall ==
    /\ spResult = NoResult
    /\ spResult' = [err |-> NoError, path |-> SanitizeFilename(requested)]
    /\ UNCHANGED <<DownloadsDir, requested, classVars, storeVars, envVars, procVars>>

NextName == ReceiveName \/ SanitizeCall

SpecName == InitName /\ [][NextName]_vars

\* calls of parseYtDlpError alone, on every stderr text of up to MaxStderr
\* characters made of the pieces

\* what the failed subprocess may have written to stderr, piece by piece
StderrPieces ==
    {<<"D", "N", "S">>,
     <<"4", "0", "4">>,
     <<"4", "0", "3">>,
     <<"U", "n", "s", "u", "p", "p", "o", "r", "t", "e", "d", " ", "U", "R", "L">>,
     <<"r", "e", "m", "o", "v", "e", "d">>,
     <<"t", "i", "m", "e", "o", "u", "t">>,
     <<"x">>}

InitClassify ==
    /\ DownloadsDir = DefaultDownloadsDir
    /\ requested = <<>> /\ spResult = NoResult
    /\ stderr = <<>> /\ downloadError = NoDownloadError
    /\ attempts = EmptyMap
    /\ mode = "stderr"
    /\ videos = EmptyMap /\ metaFile = FileAbsent /\ disk = EmptyMap /\ now = 1
    /\ ProcsAtRest

\* the subprocess writes a piece to stderr
ReceiveStderr ==
    /\ downloadError = NoDownloadError
    /\ \E piece \in StderrPieces :
        /\ Len(stderr) + Len(piece) <= MaxStderr
        /\ stderr' = stderr \o piece
    /\ UNCHANGED <<DownloadsDir, requested, spResult, downloadError, attempts,
                   storeVars, envVars, procVars>>

\* the subprocess has failed: handleVideoDownload calls parseYtDlpError
ParseCall ==
    /\ downloadError = NoDownloadError
    /\ downloadError' = parseYtDlpError(stderr)
    /\ UNCHANGED <<DownloadsDir, requested, spResult, stderr, attempts, storeVars,
                   envVars, procVars>>

NextClassify == ReceiveStderr \/ ParseCall

SpecClassify == InitClassify /\ [][NextClassify]_vars

----------------------------------------------------------------------------
(* cmd/web: the streaming POST handler *)

\* the subprocess of the streaming handler may write one line more to each
\* stream than a pipe holds
StreamLines == PipeCap + MaxLines

\* cmd.StdoutPipe, cmd.StderrPipe, cmd.Start (errors ignored), then the loop
\* over scannerOut begins
StreamStart(p) ==
    /\ CanStart(p)
    /\ sub' = [sub EXCEPT ![p] = [NoSub EXCEPT !.state = "running"]]
    /\ pipe' = [pipe EXCEPT ![p] = NoPipe]
    /\ pc' = [pc EXCEPT ![p] = "stream_out"]
    /\ started' = started + 1
    /\ UNCHANGED <<pathVars, storeVars, mode, call, chan, sent, closes, rd, relay, ws, panicked>>

\* the subprocess calls write on a stream
SubBeginWrite(p, stream) ==
    /\ sub[p].state = "running" /\ ~panicked
    /\ sub[p][stream] < StreamLines
    /\ sub' = [sub EXCEPT ![p].state = stream]
    /\ UNCHANGED <<pathVars, storeVars, envVars, pc, call, chan, sent, closes, pipe, rd, relay, ws, panicked>>

\* the write returns once the pipe has room for the line
SubEndWrite(p) ==
    /\ sub[p].state \in Streams /\ ~panicked
    /\ LET stream == sub[p].state
       IN  /\ Len(pipe[p][stream]) < PipeCap
           /\ pipe' = [pipe EXCEPT ![p][stream] = Append(@, MsgLine(stream, sub[p][stream] + 1))]
           /\ sub' = [sub EXCEPT ![p][stream] = @ + 1, ![p].state = "running"]
    /\ UNCHANGED <<pathVars, storeVars, envVars, pc, call, chan, sent, closes, rd, relay, ws, panicked>>

\* the subprocess exits, which closes its ends of the pipes
StreamSubExit(p) ==
    /\ mode = "stream" /\ sub[p].state = "running" /\ ~panicked
    /\ \E code \in {0, 1} : sub' = [sub EXCEPT ![p].state = "exited", ![p].code = code]
    /\ UNCHANGED <<pathVars, storeVars, envVars, pc, call, chan, sent, closes, pipe, rd, relay, ws, panicked>>

\* for scanner.Scan() { fmt.Fprintf(w, ...) }: a line of the stream is written
\* to the response; at end of file the handler goes on to `next`
StreamScan(p, stream, next) ==
    /\ ~panicked
    /\ IF pipe[p][stream] # <<>>
       THEN /\ ws' = [ws EXCEPT ![p] = Append(@, [type |-> "line",
                                                   message |-> Head(pipe[p][stream])])]
            /\ pipe' = [pipe EXCEPT ![p][stream] = Tail(@)]
            /\ UNCHANGED pc
       ELSE /\ sub[p].state = "exited"
            /\ pc' = [pc EXCEPT ![p] = next]
            /\ UNCHANGED <<ws, pipe>>
    /\ UNCHANGED <<pathVars, storeVars, envVars, call, chan, sent, closes, sub, rd, relay, panicked>>

\* the loop over scannerOut
StreamScanOut(p) == pc[p] = "stream_out" /\ StreamScan(p, "out", "stream_err")

\* the loop over scannerErr, entered when the loop over scannerOut has ended
StreamScanErr(p) == pc[p] = "stream_err" /\ StreamScan(p, "err", "stream_wait")

\* cmd.Wait, and the end of the response
StreamWait(p) ==
    /\ pc[p] = "stream_wait" /\ ~panicked
    /\ sub[p].state = "exited"
    /\ pipe' = [pipe EXCEPT ![p].readClosed = TRUE]
    /\ ws' = [ws EXCEPT ![p] = Append(@, [type |-> IF sub[p].code # 0 THEN "error" ELSE "done",
                                          message |-> NoLine])]
    /\ pc' = [pc EXCEPT ![p] = "stream_done"]
    /\ UNCHANGED <<pathVars, storeVars, envVars, call, chan, sent, closes, sub, rd, relay, panicked>>

NextStream ==
    \E p \in Procs :
        \/ StreamStart(p)
        \/ \E st \in Streams : SubBeginWrite(p, st)
        \/ SubEndWrite(p)
        \/ StreamSubExit(p)
        \/ StreamScanOut(p)
        \/ StreamScanErr(p)
        \/ StreamWait(p)
        \/ Finish(p)

SpecStream == InitStore("stream") /\ [][NextStream]_vars

\* calls of the scanner and of the file locator alone, over a directory that
\* does not change

\* the names a file of the directory may have: the title with two extensions,
\* the id, a name that contains the id, a name that contains neither, the
\* sanitized and the raw form of a title with a colon, a partial download, and
\* a complete file with the text of a marker inside its name (x.party.mp4)
FileNames ==
    { <<"D", "c">> \o Mp4, <<"D", "c">> \o Mkv, <<"a">> \o Mp4,
      <<"x", "a">> \o Mkv, <<"x">> \o Mp4,
      <<"D", "_", "c">> \o Mp4, <<"D", ":", "c">> \o Mkv,
      <<"D", "c">> \o PartMarker \o Mp4,
      <<"x">> \o PartMarker \o <<"y">> \o Mp4 }

\* the titles and ids the locator is asked for
LocateArgs ==
    { [title |-> <<"D", "c">>, id |-> <<"a">>],
      [title |-> <<"D", ":", "c">>, id |-> <<"a">>] }

InitFiles ==
    /\ mode = "files"
    /\ DownloadsDir = DefaultDownloadsDir
    /\ requested = <<>>
    /\ spResult = NoResult
    /\ stderr = <<>> /\ downloadError = NoDownloadError
    /\ attempts = EmptyMap
    /\ now = 1
    /\ \E names \in SUBSET FileNames :
          /\ Cardinality(names) <= MaxFiles
          /\ disk \in [{Abs(Join(DownloadsDir, n)) : n \in names}
                          -> [size : {1}, mtime : {0, 1}]]
    /\ metaFile = FileAbsent
    /\ videos = EmptyMap
    /\ ProcsAtRest

\* vs.ScanForExistingVideos() is called
ScanCall(p) ==
    /\ CanStart(p)
    /\ call' = [call EXCEPT ![p] = [NoCall EXCEPT !.pre = videos, !.preDisk = disk]]
    /\ videos' = ScanForExistingVideos(videos, disk, DownloadsDir)
    /\ pc' = [pc EXCEPT ![p] = "scan_done"]
    /\ started' = started + 1
    /\ UNCHANGED <<pathVars, metaFile, disk, now, mode, chan, sent, closes, dlInfra, relay, ws, panicked>>

\* vs.findDownloadedFile(title, id) is called
LocateCall(p) ==
    /\ CanStart(p)
    /\ \E a \in LocateArgs :
        LET r == findDownloadedFile(disk, DownloadsDir, now, a.title, a.id)
        IN  call' = [call EXCEPT ![p] =
                        [NoCall EXCEPT !.metadata = [NoMeta EXCEPT !.Title = a.title,
                                                                  !.ID = a.id],
                                       !.file = r.path, !.ret = r.err]]
    /\ pc' = [pc EXCEPT ![p] = "located"]
    /\ started' = started + 1
    /\ UNCHANGED <<pathVars, storeVars, mode, chan, sent, closes, dlInfra, relay, ws, panicked>>

NextFiles == \E p \in Procs : ScanCall(p) \/ LocateCall(p) \/ Finish(p)

SpecFiles == InitFiles /\ [][NextFiles]_vars

\* calls of LoadMetadata and of the scanner alone, over a directory and a
\* metadata.json that do not change

\* the directories: at most MaxFiles media files of one modification time
LoadDisks ==
    LET names == { <<"D", "c">> \o Mp4, <<"a">> \o Mp4, <<"x">> \o Mkv }
    IN  UNION { [{Abs(Join(DefaultDownloadsDir, n)) : n \in ns}
                    -> [size : {1}, mtime : {0}]] :
                ns \in {t \in SUBSET names : Cardinality(t) <= MaxFiles} }

\* metadata.json: absent, not readable, not decodable, or written by
\* SaveMetadata from an empty map, from a map with the entry of a download, or
\* from a map with that entry and the entry of a scanned file
LoadFiles ==
    LET old == Put(EmptyMap, OldEntry)
        dir == [f \in {Abs(Join(DefaultDownloadsDir, <<"x">> \o Mkv))} |->
                    [size |-> 1, mtime |-> 0]]
    IN  { FileAbsent, FileUnreadable, FileCorrupt, MarshalVideos(EmptyMap),
          MarshalVideos(old),
          MarshalVideos(ScanForExistingVideos(old, dir, DefaultDownloadsDir)) }

InitLoad ==
    /\ mode = "load"
    /\ DownloadsDir = DefaultDownloadsDir
    /\ requested = <<>>
    /\ spResult = NoResult
    /\ stderr = <<>> /\ downloadError = NoDownloadError
    /\ attempts = EmptyMap
    /\ now = 1
    /\ disk \in LoadDisks
    /\ metaFile \in LoadFiles
    /\ videos = EmptyMap
    /\ ProcsAtRest

\* vs.LoadMetadata() is called
LoadCall(p) ==
    /\ CanStart(p)
    /\ LET r == LoadMetadata(videos, metaFile)
       IN  /\ videos' = r.videos
           /\ call' = [call EXCEPT ![p] = [NoCall EXCEPT !.pre = videos,
                                                  !.preFile = metaFile,
                                                  !.ret = r.err,
                                                  !.loaded = r.videos]]
    /\ pc' = [pc EXCEPT ![p] = "load_done"]
    /\ started' = started + 1
    /\ UNCHANGED <<pathVars, metaFile, disk, now, mode, chan, sent, closes, dlInfra, relay, ws, panicked>>

NextLoad == \E p \in Procs : LoadCall(p) \/ ScanCall(p) \/ Finish(p)

SpecLoad == InitLoad /\ [][NextLoad]_vars

----------------------------------------------------------------------------
(* C1 *)

\* Where a walk from the directory `at` (a sequence of elements) along the
\* elements of a requested path ends: ".." goes to the parent (the root is its
\* own parent), "" and "." stay, a name goes down.
RECURSIVE Walk(_, _)
Walk(at, elems) ==
    IF elems = <<>> THEN at
    ELSE LET e == Head(elems)
         IN  IF e = <<>> \/ e = <<".">> THEN Walk(at, Tail(elems))
             ELSE IF e = DotDot
                  THEN Walk(IF at = <<>> THEN at ELSE SubSeq(at, 1, Len(at) - 1),
                            Tail(elems))
                  ELSE Walk(Append(at, e), Tail(elems))

\* the directory a path names, as elements from the filesystem root
Location(path) ==
    IF IsAbs(path) THEN Walk(<<>>, SplitPath(path))
    ELSE Walk(Walk(<<>>, SplitPath(Cwd)), SplitPath(path))

RootLocation == Location(DownloadsDir)

\* where the requested path leads when followed from the downloads root
RequestedLocation == Walk(RootLocation, SplitPath(requested))

ResolvesInsideRoot ==
    /\ Len(RootLocation) <= Len(RequestedLocation)
    /\ SubSeq(RequestedLocation, 1, Len(RootLocation)) = RootLocation

AbsRoot == <<Separator>> \o JoinElems(RootLocation)

\* C1: SecurePath returns the path-traversal error for every requested
\* relative path that leads outside the downloads root (a sibling directory
\* whose name starts with the root's name included), and for every requested
\* relative path that leads to the root or below it returns, without error, an
\* absolute path that is the absolute root or starts with the absolute root
\* and a separator.
C1_SecurePathGuards ==
    (spResult # NoResult /\ ~IsAbs(requested)) =>
        /\ ~ResolvesInsideRoot => spResult.err = ErrTraversal
        /\ ResolvesInsideRoot =>
              /\ spResult.err = NoError
              /\ \/ spResult.path = AbsRoot
                 \/ HasPrefix(spResult.path, AbsRoot \o <<Separator>>)
              /\ spResult.path = <<Separator>> \o JoinElems(RequestedLocation)

\* a request for a sibling directory whose name starts with the root's name
\* has been rejected
C1_Witness ==
    /\ requested = <<".", ".", "/", "d", "x">>
    /\ spResult.err = ErrTraversal

\* a request below the root has been accepted
C1_WitnessInside ==
    /\ requested = <<".", "/", "d", "/", "x">>
    /\ spResult.err = NoError
    /\ spResult.path = AbsRoot \o <<"/", "d", "/", "x">>

----------------------------------------------------------------------------
(* C2 *)

\* DownloadVideo has returned to the goroutine of HandleWebSocket
DownloadReturned(p) == pc[p] \in {"dl_returned", "dl_done"}

\* C2: whenever DownloadVideo has returned an error, the entries GetAllVideos
\* returns are the ones it returned before the call: none added, none replaced.
C2_FailedDownloadLeavesMap ==
    \A p \in Procs :
        (DownloadReturned(p) /\ call[p].ret # NoError) =>
            GetAllVideos(videos) = GetAllVideos(call[p].pre)

----------------------------------------------------------------------------
(* C3 *)

\* the entries serialized in metadata.json, and the entries of the map as
\* SaveMetadata would serialize them
SerializedEntries == metaFile.entries
MemoryEntries == MarshalVideos(videos).entries

\* the commit step of DownloadVideo (the assignment to the map and
\* SaveMetadata) has just returned
CommitReturned(p) ==
    \/ pc[p] = "dl_success"
    \/ pc[p] = "dl_returned" /\ call[p].ret = ErrSave

\* DeleteVideo has returned
DeleteReturned(p) == pc[p] = "del_done"

\* C3: when the commit step of DownloadVideo returns and when DeleteVideo
\* returns, with or without an error, the entries serialized in metadata.json
\* are the entries of the in-memory map.
C3_DiskMatchesMemory ==
    \A p \in Procs :
        (CommitReturned(p) \/ DeleteReturned(p)) => SerializedEntries = MemoryEntries

----------------------------------------------------------------------------
(* C4 *)

\* a mutation of the map and of metadata.json is in progress: the map has been
\* written and SaveMetadata has not returned
InMutation(p) == pc[p] \in {"dl_marshal", "dl_write", "del_marshal", "del_write"}

\* a read of the map by GetAllVideos or SearchVideos is in progress
InRead(p) == pc[p] = "list_read"

\* C4: no two mutations of the store are in progress at the same time, and no
\* read of the map is in progress during a mutation.
C4_StoreAccessExclusive ==
    \A p, q \in Procs :
        p # q => /\ ~(InMutation(p) /\ InMutation(q))
                 /\ ~(InMutation(p) /\ InRead(q))

----------------------------------------------------------------------------
(* C5 *)

\* DeleteVideo(id) has returned for an id that was in the map when it was called
DeletedPresent(p) == DeleteReturned(p) /\ call[p].id \in DOMAIN call[p].pre

\* DeleteVideo(id) has returned for an id that was not in the map
DeletedAbsent(p) == DeleteReturned(p) /\ call[p].id \notin DOMAIN call[p].pre

\* the not-found error, with memory, metadata.json and the files unchanged
NotFoundAndUntouched(p) ==
    /\ call[p].ret = ErrVideoNotFound
    /\ videos = call[p].pre
    /\ metaFile = call[p].preFile
    /\ disk = call[p].preDisk

\* C5 as stated: after a successful DeleteVideo of a present id the entry is
\* gone and neither its video file nor its thumbnail (if set) exists; for an
\* absent id the call fails with not-found and nothing changes.
C5_DeleteRemovesEverything ==
    \A p \in Procs :
        /\ (DeletedPresent(p) /\ call[p].ret = NoError) =>
              /\ call[p].id \notin DOMAIN videos
              /\ ~StatOk(disk, call[p].video.FilePath)
              /\ call[p].video.Thumbnail # <<>> => ~StatOk(disk, call[p].video.Thumbnail)
        /\ DeletedAbsent(p) => NotFoundAndUntouched(p)

\* C5, amended: after a successful DeleteVideo of a present id the entry is
\* gone and its video file does not exist; its thumbnail (if set) does not
\* exist unless its removal failed, which DeleteVideo ignores; for an absent id
\* the call fails with not-found and nothing changes.
C5_DeleteRemovesVideoFile ==
    \A p \in Procs :
        /\ (DeletedPresent(p) /\ call[p].ret = NoError) =>
              /\ call[p].id \notin DOMAIN videos
              /\ ~StatOk(disk, call[p].video.FilePath)
              /\ (call[p].video.Thumbnail # <<>> /\ call[p].thumbErr \in {NoError, "not exist"})
                    => ~StatOk(disk, call[p].video.Thumbnail)
        /\ DeletedAbsent(p) => NotFoundAndUntouched(p)

\* an entry with a thumbnail has been deleted, with both of its files
C5_Witness ==
    \E p \in Procs :
        /\ DeletedPresent(p) /\ call[p].ret = NoError
        /\ call[p].video.Thumbnail # <<>>
        /\ StatOk(call[p].preDisk, call[p].video.Thumbnail)
        /\ StatOk(call[p].preDisk, call[p].video.FilePath)
        /\ ~StatOk(disk, call[p].video.Thumbnail)
        /\ ~StatOk(disk, call[p].video.FilePath)

\* an id that is not in the map has been refused
C5_WitnessAbsent ==
    \E p \in Procs : DeletedAbsent(p) /\ call[p].ret = ErrVideoNotFound /\ videos # EmptyMap

----------------------------------------------------------------------------
(* C6 *)

\* C6: a download whose subprocess never exits is not left waiting: the wait
\* for the subprocess ends (the subprocess is killed and the call returns).
C6_StuckDownloadEnds ==
    \A p \in Procs :
        (pc[p] = "dl_wait" /\ sub[p].state = "hung") => ENABLED DLWait(p)

----------------------------------------------------------------------------
(* C7 *)

\* C7: every call of DownloadVideo closes its progress channel exactly once:
\* the channel is never closed twice, it is closed when the call has returned,
\* whatever it returns, and not before; and the relaying loop, once the
\* channel is closed and drained, can only stop, writing nothing more.
C7_ClosedOnceOnReturn ==
    /\ [](\A p \in Procs :
            /\ closes[p] <= 1
            /\ DownloadReturned(p) => (closes[p] = 1 /\ chan[p].closed)
            /\ chan[p].closed => DownloadReturned(p)
            /\ (relay[p] = "loop" /\ chan[p].closed /\ chan[p].buf = <<>> /\ ~panicked)
                  => ENABLED RelayReceive(p))
    /\ [][\A p \in Procs :
            (relay[p] = "loop" /\ chan[p].closed /\ chan[p].buf = <<>> /\ RelayReceive(p))
                => (relay'[p] = "stopped" /\ ws'[p] = ws[p])]_vars

\* a download that failed to save its metadata has returned, its channel is
\* closed and the relaying loop has drained it and stopped
C7_Witness ==
    \E p \in Procs :
        /\ DownloadReturned(p) /\ call[p].ret = ErrSave
        /\ closes[p] = 1 /\ chan[p].closed /\ chan[p].buf = <<>>
        /\ relay[p] = "stopped"
        /\ Len(ws[p]) >= Len(sent[p])

----------------------------------------------------------------------------
(* C8 *)

IsLine(m) == m.text = "line"

\* C8: when DownloadVideo has returned success, the messages sent on the
\* channel start with the "Extracting" message, the "Starting download"
\* message comes before every line of the subprocess, and the success
\* message is the last one.
C8_SuccessOrder ==
    \A p \in Procs :
        (DownloadReturned(p) /\ call[p].ret = NoError) =>
            LET s == sent[p]
            IN  /\ s # <<>>
                /\ s[1] = MsgExtracting
                /\ \E i \in 1..Len(s) :
                      /\ s[i] = MsgStarting(call[p].metadata.Title)
                      /\ \A j \in 1..Len(s) : IsLine(s[j]) => i < j
                /\ s[Len(s)] = MsgSuccess

----------------------------------------------------------------------------
(* C9 *)

ErrorTexts ==
    {ErrExtract, ErrStart, ErrDownload, ErrFind, ErrStat, ErrSave}

\* a message that reports a failure
IsFailureMessage(m) == m.text \in ErrorTexts \/ m.text = "error"

----------------------------------------------------------------------------
(* C10 *)

\* the substrings of a string
Substrings(str) ==
    {SubSeq(str, i, j) : i \in 1..(Len(str) + 1), j \in 0..Len(str)}

\* C10: when DownloadVideo has returned success and the subprocess wrote the
\* file <title><ext> of size S, the map has the entry keyed by the extracted
\* id, with Filename the base name of that file and FileSize S; GetAllVideos
\* has it, and so has SearchVideos(q) for every substring q of the title, in
\* any case.
C10_DownloadedEntry ==
    \A p \in Procs :
        (DownloadReturned(p) /\ call[p].ret = NoError /\ call[p].art.media) =>
            LET I == call[p].metadata.ID
                T == call[p].metadata.Title
                written == Join(DownloadsDir, T \o call[p].art.ext)
            IN  /\ I \in DOMAIN videos
                /\ videos[I].ID = I
                /\ videos[I].Filename = Base(written)
                /\ videos[I].FileSize = call[p].art.size
                /\ videos[I] \in GetAllVideos(videos)
                /\ \A q \in Substrings(T) :
                      /\ videos[I] \in SearchVideos(videos, q)
                      /\ videos[I] \in SearchVideos(videos, ToLower(q))

----------------------------------------------------------------------------
(* C11 *)

\* a models.Video with its time reduced to the instant it names
AtInstant(v) == [v EXCEPT !.CreatedAt = @.wall]

\* two maps have the same ids and, under each id, the same field values
SameEntries(a, b) ==
    /\ DOMAIN a = DOMAIN b
    /\ \A i \in DOMAIN a : AtInstant(a[i]) = AtInstant(b[i])

\* LoadMetadata has just run on the file that SaveMetadata wrote from the map
\* as it was before the restart
LoadedWhatWasSaved(p) ==
    /\ pc[p] = "boot_scan"
    /\ call[p].preFile = MarshalVideos(call[p].pre)

C11_WitnessEmpty ==
    \E p \in Procs : LoadedWhatWasSaved(p) /\ call[p].pre = EmptyMap /\ videos = EmptyMap

----------------------------------------------------------------------------
(* C12 *)

\* the keys of the map whose entry has the id
EntriesWithId(vids, id) == {k \in DOMAIN vids : vids[k].ID = id}

\* the elements of metadata.json that have the id
SerializedWithId(file, id) == {o \in file.entries : o.id = id}

\* DownloadVideo has returned success for an id that was in the map already
CommittedAgain(p) ==
    /\ DownloadReturned(p) /\ call[p].ret = NoError
    /\ call[p].metadata.ID \in DOMAIN call[p].pre

\* C12: after a second successful commit of the same id, the map has exactly
\* one entry with that id and so has metadata.json, and the entries with other
\* ids are as many as before.
C12_PutIdempotent ==
    \A p \in Procs :
        CommittedAgain(p) =>
            LET I == call[p].metadata.ID
            IN  /\ Cardinality(EntriesWithId(videos, I)) = 1
                /\ Cardinality(SerializedWithId(metaFile, I)) = 1
                /\ DOMAIN videos \ {I} = DOMAIN call[p].pre \ {I}
                /\ Cardinality({k \in DOMAIN videos : videos[k].ID # I})
                      = Cardinality({k \in DOMAIN call[p].pre : call[p].pre[k].ID # I})

\* the same url has been downloaded a second time, with the same content, next
\* to an entry of another id
C12_Witness ==
    \E p \in Procs :
        /\ CommittedAgain(p)
        /\ AtInstant(call[p].pre[call[p].metadata.ID])
              = AtInstant(videos[call[p].metadata.ID])
        /\ Cardinality(DOMAIN videos) = 2

----------------------------------------------------------------------------
(* C13 *)

\* the media files of the directory the scanner is to register: regular files
\* of the directory with an extension of the allow-list that are not partial
\* downloads
QualifyingFiles(dsk, dir) ==
    {f \in DOMAIN dsk :
        /\ f = Join(Abs(dir), Base(f))
        /\ ~IsPartial(Base(f))
        /\ HasExtensionOf(Base(f), VideoExtensions)}

\* the keys of the entries whose FilePath is the file
EntriesOfFile(vids, f) == {k \in DOMAIN vids : Abs(vids[k].FilePath) = f}

\* C13: after every scan of an unchanged directory the map has exactly one
\* entry for each qualifying file, and a scan of a map that has entries (a
\* scan after the first) adds no entry.
C13_OneEntryPerFile ==
    \A p \in Procs :
        pc[p] = "scan_done" =>
            /\ \A f \in QualifyingFiles(disk, DownloadsDir) :
                  Cardinality(EntriesOfFile(videos, f)) = 1
            /\ call[p].pre # EmptyMap => DOMAIN videos = DOMAIN call[p].pre

----------------------------------------------------------------------------
(* C14 *)

\* the files that exist among the candidates <stem><ext>
ExactHits(dsk, dir, stem) ==
    {f \in DOMAIN dsk :
        \E i \in 1..Len(VideoExtensions) : f = Abs(Join(dir, stem \o VideoExtensions[i]))}

\* the qualifying files whose name contains the title or the id
NamedHits(dsk, dir, title, id) ==
    {f \in QualifyingFiles(dsk, dir) : NamesTitleOrId(Base(f), title, id)}

\* the qualifying files modified less than ten minutes ago
RecentHits(dsk, dir, clock) ==
    {f \in QualifyingFiles(dsk, dir) : clock - dsk[f].mtime < RecencyTicks}

\* the steps of the resolution, in their order
LocatorSteps(dsk, dir, clock, title, id) ==
    << ExactHits(dsk, dir, title), ExactHits(dsk, dir, SanitizeFilename(title)),
       ExactHits(dsk, dir, id), NamedHits(dsk, dir, title, id),
       RecentHits(dsk, dir, clock) >>

\* C14: findDownloadedFile returns a file of the first step that has one, in
\* the order exact title, exact sanitized title, exact id, name contains title
\* or id, recently modified; it fails only when no step has a file. With both
\* <title>.mp4 and <id>.mp4 in the directory it returns <title>.mp4.
C14_LocatorOrder ==
    \A p \in Procs :
        pc[p] = "located" =>
            LET T == call[p].metadata.Title
                I == call[p].metadata.ID
                steps == LocatorSteps(disk, DownloadsDir, now, T, I)
                first == {i \in 1..Len(steps) : steps[i] # {}}
            IN  /\ first = {} <=> call[p].ret # NoError
                /\ first # {} =>
                      Abs(call[p].file) \in steps[CHOOSE i \in first : \A j \in first : i <= j]
                /\ ({Abs(Join(DownloadsDir, T \o Mp4)), Abs(Join(DownloadsDir, I \o Mp4))}
                        \subseteq DOMAIN disk)
                      => call[p].file = Join(DownloadsDir, T \o Mp4)

\* the directory has <title>.mp4 and <id>.mp4 and the locator has returned
\* <title>.mp4
C14_Witness ==
    \E p \in Procs :
        /\ pc[p] = "located"
        /\ call[p].metadata.Title = <<"D", "c">>
        /\ {Abs(Join(DownloadsDir, <<"D", "c">> \o Mp4)),
            Abs(Join(DownloadsDir, <<"a">> \o Mp4))} \subseteq DOMAIN disk
        /\ call[p].file = Join(DownloadsDir, <<"D", "c">> \o Mp4)

\* the sanitized title has been preferred to the id
C14_WitnessSanitized ==
    \E p \in Procs :
        /\ pc[p] = "located"
        /\ call[p].metadata.Title = <<"D", ":", "c">>
        /\ Abs(Join(DownloadsDir, <<"a">> \o Mp4)) \in DOMAIN disk
        /\ call[p].file = Join(DownloadsDir, <<"D", "_", "c">> \o Mp4)

(* C15 *)

\* the characters SanitizeFilename is to remove
ForbiddenChars == {"/", "\\", ":", "*", "?", "\"", "<", ">", "|"}

\* SanitizeFilename has been called on the filename read
Sanitized == mode = "name" /\ spResult # NoResult

\* C15: the output of SanitizeFilename contains none of the characters
\* / \ : * ? " < > | and no two consecutive dots, whatever the input.
C15_SanitizedIsClean ==
    Sanitized =>
        /\ \A i \in 1..Len(spResult.path) : spResult.path[i] \notin ForbiddenChars
        /\ ~Contains(spResult.path, <<".", ".">>)

\* a run of three dots: the first two are replaced, the third is kept
C15_Witness ==
    /\ Sanitized
    /\ requested = <<".", ".", ".">>
    /\ spResult.path = <<"_", ".">>

\* a replaced separator next to a dot: ./. gives ._.
C15_WitnessNextToDot ==
    /\ Sanitized
    /\ requested = <<".", "/", ".">>
    /\ spResult.path = <<".", "_", ".">>

(* C16 *)

\* DownloadVideo is running for p: the extraction subprocess is about to be
\* started or has been started
Attempted(p) == pc[p] \in {"dl_extracting", "dl_extract", "dl_returned", "dl_done"}

\* C16: a download request whose url is empty or only white space is answered
\* with an error at the handler and DownloadVideo, which starts the yt-dlp
\* subprocess, is never invoked for it.
C16_BlankUrlRejected ==
    \A p \in Procs : Attempted(p) => ~IsBlank(call[p].url)

(* C17 *)

\* the path leads to the downloads root or below it
InsideRoot(path) ==
    LET loc == Location(path)
    IN  /\ Len(RootLocation) <= Len(loc)
        /\ SubSeq(loc, 1, Len(RootLocation)) = RootLocation

\* C17: in every state of the store, the FilePath of every entry leads inside
\* the downloads root, and so does every Thumbnail that is not empty.
C17_EntriesInsideRoot ==
    \A k \in DOMAIN videos :
        /\ InsideRoot(videos[k].FilePath)
        /\ videos[k].Thumbnail # <<>> => InsideRoot(videos[k].Thumbnail)

(* C18 *)

\* the delete request of p has removed the video file of its entry from disk
VideoFileRemoved(p) ==
    /\ pc[p] \in {"del_remove_thumbnail", "del_map", "del_marshal", "del_write", "del_done"}
    /\ Abs(call[p].video.FilePath) \in DOMAIN call[p].preDisk
    /\ Abs(call[p].video.FilePath) \notin DOMAIN disk

\* SecurePath has been called and has accepted the path
SecurePathAccepted(path) ==
    /\ spResult # NoResult
    /\ spResult.err = NoError
    /\ spResult.path = Abs(path)

\* C18: a request removes a file from disk only after SecurePath has accepted
\* that file's path in the same request.
C18_RemovedOnlyIfAccepted ==
    \A p \in Procs :
        VideoFileRemoved(p) => SecurePathAccepted(call[p].video.FilePath)

(* C19 *)

\* two characters are the same letter in either case, or the same character
SameLetter(c, d) == c = d \/ {c, d} = {"D", "d"} \/ {c, d} = {"E", "e"}

\* the text contains the query as a substring, case ignored
ContainsIgnoringCase(text, query) ==
    \E i \in 0..(Len(text) - Len(query)) :
        \A j \in 1..Len(query) : SameLetter(text[i + j], query[j])

\* the stored entries whose title, uploader or description contains the query
MatchingEntries(vids, query) ==
    {vids[k] : k \in {i \in DOMAIN vids :
        \/ ContainsIgnoringCase(vids[i].Title, query)
        \/ ContainsIgnoringCase(vids[i].Uploader, query)
        \/ ContainsIgnoringCase(vids[i].Description, query)}}

\* the listing of p has called SearchVideos and has its result
Searched(p) == pc[p] = "list_done" /\ call[p].query # <<>>

\* C19: SearchVideos(query) returns exactly the stored entries whose title,
\* uploader or description contains the query, case ignored; the result is a
\* subset of GetAllVideos and the store is as it was before the call.
C19_SearchExact ==
    \A p \in Procs :
        Searched(p) =>
            /\ call[p].result = MatchingEntries(videos, call[p].query)
            /\ call[p].result \subseteq GetAllVideos(videos)
            /\ videos = call[p].pre

\* a query in upper case finds the entry whose uploader has it in lower case
C19_Witness ==
    \E p \in Procs :
        /\ Searched(p)
        /\ call[p].query = <<"E">>
        /\ \E v \in call[p].result : v.Uploader = <<"e">> /\ v.Description = <<>>

\* a query that some entries contain and others do not
C19_WitnessSome ==
    \E p \in Procs :
        /\ Searched(p)
        /\ call[p].result # {}
        /\ call[p].result # GetAllVideos(videos)

(* C20 *)

\* parseYtDlpError has been called on the stderr text
Classified == mode = "stderr" /\ downloadError # NoDownloadError

\* the kinds of the failures that are not read from the subprocess's stderr
OtherKinds == {ErrorTypeValidation, ErrorTypeBinary, ErrorTypeFileSystem}

\* stderr has no text of the four classes
OfNoClass(text) ==
    ~ContainsAny(ToLower(text), NetworkPatterns \cup NotFoundPatterns
                                  \cup PermissionPatterns \cup UnsupportedPatterns)

\* stderr reports an unsupported url and nothing of the classes tested before
UnsupportedOnly(text) ==
    /\ ContainsAny(ToLower(text), UnsupportedPatterns)
    /\ ~ContainsAny(ToLower(text), NetworkPatterns \cup NotFoundPatterns
                                      \cup PermissionPatterns)

\* C20: the stderr of a failed subprocess gets one of the kinds network,
\* not-found, permission, unsupported-source and unknown, none of the kinds of
\* other failures; unknown exactly when stderr has no text of the four classes;
\* and stderr that reports an unsupported url gets a kind of its own, which is
\* not the validation kind.
C20_StderrClassified ==
    Classified =>
        /\ downloadError.Type \notin OtherKinds
        /\ downloadError.Type = ErrorTypeUnknown <=> OfNoClass(stderr)
        /\ UnsupportedOnly(stderr) =>
               downloadError.Type \notin {ErrorTypeValidation, ErrorTypeNetwork,
                                          ErrorTypeNotFound, ErrorTypePermission,
                                          ErrorTypeUnknown}

(* C21 *)

\* the kind of the failure in a JSON object written to the WebSocket: the value
\* of a key "kind", none if the object has no such key
FailureKind(m) == IF "kind" \in DOMAIN m THEN m.kind ELSE ""

\* C21: every error written to the client of a download has a message that is
\* not empty and a kind that is not empty.
C21_FailureHasMessageAndKind ==
    \A p \in Procs : \A i \in 1..Len(ws[p]) :
        ws[p][i].type = "error" =>
            /\ ws[p][i].message.text # ""
            /\ FailureKind(ws[p][i]) # ""

(* C22 *)

\* the subprocess of p is inside a write to a stream whose pipe is full
BlockedWriting(p, stream) ==
    sub[p].state = stream /\ Len(pipe[p][stream]) = PipeCap

\* the streaming handler of p waits for a stream to reach end of file: it is
\* in the loop over that stream and the pipe has nothing to read
AwaitingEOF(p, stream) ==
    /\ pc[p] = (IF stream = "out" THEN "stream_out" ELSE "stream_err")
    /\ pipe[p][stream] = <<>>

\* C22: the subprocess is never blocked writing to a full pipe of one stream
\* while the server waits for the other stream to reach end of file.
C22_NoPipeDeadlock ==
    \A p \in Procs :
        /\ ~(BlockedWriting(p, "err") /\ AwaitingEOF(p, "out"))
        /\ ~(BlockedWriting(p, "out") /\ AwaitingEOF(p, "err"))

----------------------------------------------------------------------------
(* C23 *)

\* the relaying loop of HandleWebSocket has returned: nothing receives from
\* the channel any more
ConsumerGone(p) == relay[p] = "stopped"

\* DownloadVideo is at one of its sends that follow cmd.Wait
SendingAfterWait(p) == pc[p] \in {"dl_completed", "dl_success"}

\* the channel holds lines of the subprocess only (the messages of
\* DownloadVideo itself are few and do not fill the channel of the code)
HoldsLinesOnly(p) == \A i \in 1..Len(chan[p].buf) : IsLine(chan[p].buf[i])

\* C23: once the consumer has stopped reading and the subprocess has exited,
\* DownloadVideo is not blocked for good in a send to the full channel: its
\* next send can be made, so that it goes on to return and to close the channel.
C23_SendNotBlocked ==
    \A p \in Procs :
        (ConsumerGone(p) /\ sub[p].state = "exited" /\ SendingAfterWait(p)
            /\ HoldsLinesOnly(p))
        => Len(chan[p].buf) < ChanCap

----------------------------------------------------------------------------
(* C24 *)

\* C24: nothing is sent on a progress channel after DownloadVideo has closed
\* it: no goroutine has panicked in a send on the closed channel, and when the
\* channel is closed no streaming goroutine still holds a line to send.
C24_NoSendAfterClose ==
    /\ ~panicked
    /\ \A p \in Procs : chan[p].closed => \A st \in Streams : rd[p][st].pc # "send"

----------------------------------------------------------------------------
(* C25 *)

\* DownloadVideo of p has returned success
Succeeded(p) == DownloadReturned(p) /\ call[p].ret = NoError

\* C25: when two concurrent calls of DownloadVideo for different ids have both
\* returned success, the map has both entries and metadata.json has both.
C25_BothCommitted ==
    \A p, q \in Procs :
        (p # q /\ Succeeded(p) /\ Succeeded(q)
            /\ call[p].metadata.ID # call[q].metadata.ID)
        => \A id \in {call[p].metadata.ID, call[q].metadata.ID} :
              /\ id \in DOMAIN videos
              /\ SerializedWithId(metaFile, id) # {}

----------------------------------------------------------------------------
(* C26 *)

\* DownloadVideo of p has returned the metadata-extraction error
ExtractionFailed(p) == DownloadReturned(p) /\ call[p].ret = ErrExtract

\* the "Starting download" message is among the messages sent
StartingSent(p) == \E i \in 1..Len(sent[p]) : sent[p][i].text = MsgStarting(<<>>).text

\* C26: the download subprocess is started, and "Starting download" sent, only
\* after the extraction has given the metadata; when the extraction fails
\* DownloadVideo returns the extraction error with no "Starting download"
\* message sent, no download subprocess started and the entries unchanged.
C26_DownloadAfterExtraction ==
    \A p \in Procs :
        /\ (StartingSent(p) \/ sub[p].state # "none")
              => (call[p].metadata # NoMeta /\ call[p].metadata = MetaOf(call[p].url))
        /\ ExtractionFailed(p) =>
              /\ ~StartingSent(p)
              /\ sub[p].state = "none"
              /\ sent[p] = <<MsgExtracting>>
              /\ videos = call[p].pre

\* the extraction has failed for a url while the store has an entry
C26_Witness ==
    \E p \in Procs :
        /\ ExtractionFailed(p)
        /\ call[p].url = "u1"
        /\ videos # EmptyMap

----------------------------------------------------------------------------
(* C27 *)

\* the video file of the entry was not on disk when DeleteVideo was called
VideoFileMissing(p) == ~StatOk(call[p].preDisk, call[p].pre[call[p].id].FilePath)

\* C27 as stated: DeleteVideo of a present id whose video file is already
\* missing from disk returns an error.
C27_MissingFileSurfaced ==
    \A p \in Procs : (DeletedPresent(p) /\ VideoFileMissing(p)) => call[p].ret # NoError

\* C27: DeleteVideo of a present id goes on when the video file is already
\* missing and when the thumbnail is missing or cannot be removed: the entry
\* leaves the map and the call returns what SaveMetadata returns. Only a video
\* file that is on disk and cannot be removed makes the call return the
\* removal error, and then the entry and the file stay.
C27_MissingFileTolerated ==
    \A p \in Procs :
        DeletedPresent(p) =>
            /\ call[p].ret \in {NoError, ErrWrite, ErrRemove}
            /\ (VideoFileMissing(p) \/ call[p].thumbErr # NoError) =>
                  /\ call[p].ret \in {NoError, ErrWrite}
                  /\ videos = Remove(call[p].pre, call[p].id)
            /\ call[p].ret = ErrRemove =>
                  /\ ~VideoFileMissing(p)
                  /\ disk = call[p].preDisk
                  /\ videos = call[p].pre

\* an entry whose video file and thumbnail were both missing has been deleted
\* and the call has succeeded
C27_Witness ==
    \E p \in Procs :
        /\ DeletedPresent(p) /\ VideoFileMissing(p)
        /\ call[p].thumbErr = "not exist"
        /\ call[p].ret = NoError

----------------------------------------------------------------------------
(* C28 *)

\* the entries other than the deleted one are the ones the map had
OthersUnchanged(p) ==
    \A i \in DOMAIN call[p].pre \ {call[p].id} :
        i \in DOMAIN videos /\ videos[i] = call[p].pre[i]

\* an entry of the store whose video file was on disk when DeleteVideo was
\* called and is not on disk now
LostFile(p, i) ==
    /\ StatOk(call[p].preDisk, videos[i].FilePath)
    /\ ~StatOk(disk, videos[i].FilePath)

\* C28: a successful DeleteVideo(id) leaves every other entry unchanged and
\* removes no file that a remaining entry references: no entry left in the
\* store has lost its video file to the delete.
C28_DeleteKeepsReferencedFiles ==
    \A p \in Procs :
        (DeletedPresent(p) /\ call[p].ret = NoError) =>
            /\ OthersUnchanged(p)
            /\ \A i \in DOMAIN videos : ~LostFile(p, i)

----------------------------------------------------------------------------
(* C29 *)

\* LoadMetadata has returned
LoadReturned(p) == pc[p] = "load_done"

\* the entries that decoding metadata.json gives
DecodedEntries(file) == {DecodeVideo(o) : o \in file.entries}

\* C29: after LoadMetadata returns without error the map holds exactly the
\* entries of metadata.json, whatever it held before; when metadata.json is
\* absent the call succeeds and the map is empty, whatever it held before.
C29_LoadReplacesMap ==
    \A p \in Procs :
        LoadReturned(p) =>
            /\ call[p].preFile = FileAbsent =>
                  call[p].ret = NoError /\ videos = EmptyMap
            /\ call[p].ret = NoError =>
                  /\ Values(videos) = DecodedEntries(call[p].preFile)
                  /\ \A i \in DOMAIN videos : videos[i].ID = i

----------------------------------------------------------------------------
(* C30 *)

\* a step keeps every field of the entries that are in the store before and
\* after it
EntriesKept ==
    \A i \in DOMAIN videos \cap DOMAIN videos' : videos'[i] = videos[i]

\* C30: entries are immutable once created: an entry that is in the store has
\* the same fields after every step that leaves its id in the store, the
\* commit of a later DownloadVideo for the same id and later scans included.
C30_EntriesImmutable == [][EntriesKept]_vars

----------------------------------------------------------------------------
(* C31 *)

\* NewVideoService has returned: the server has just started, or a restart
\* has finished its scan
ServiceStarted(p) == started = 0 \/ pc[p] = "boot_done"

\* the entries the scan of NewVideoService added to the ones it loaded
ScannedAtStart(p) ==
    LET loaded == IF started = 0 THEN LoadMetadata(EmptyMap, metaFile).videos
                  ELSE call[p].loaded
    IN  {videos[i] : i \in DOMAIN videos \ DOMAIN loaded}

\* C31: when NewVideoService returns, every entry that the scan registered in
\* memory is also in metadata.json.
C31_ScanSavedAtStart ==
    \A p \in ActiveProcs :
        ServiceStarted(p) =>
            \A v \in ScannedAtStart(p) :
                metaFile.state = "written" /\ EncodeVideo(v) \in metaFile.entries

----------------------------------------------------------------------------
(* C32 *)

\* a message that ends the report of a download to the client
IsTerminal(m) == m.type \in {"complete", "error"}

\* the request of HandleWebSocket for a download is over: the goroutine that
\* called DownloadVideo has reported, and the relaying loop has returned,
\* which closes the connection
DownloadOver(p) == pc[p] = "dl_done" /\ relay[p] = "stopped"

\* C32: for every download started by HandleWebSocket exactly one terminal
\* message, "complete" or "error", is written to the client, after the last
\* progress message and before the connection is closed.
C32_OneTerminalMessageLast ==
    \A p \in Procs :
        DownloadOver(p) =>
            LET w == ws[p]
            IN  /\ Cardinality({i \in 1..Len(w) : IsTerminal(w[i])}) = 1
                /\ IsTerminal(w[Len(w)])

----------------------------------------------------------------------------
(* C33 *)

\* the positions of a message among the messages sent on the channel
PositionsOf(p, m) == {i \in 1..Len(sent[p]) : sent[p][i] = m}

\* C33: when the progress channel is closed, every line the subprocess wrote
\* to stdout or stderr before it exited has been sent on the channel, once,
\* and the lines of one stream have been sent in the order they were written.
C33_LinesDeliveredInOrder ==
    \A p \in Procs :
        (chan[p].closed /\ sub[p].state = "exited") =>
            \A st \in Streams :
                /\ \A k \in 1..sub[p][st] :
                      Cardinality(PositionsOf(p, MsgLine(st, k))) = 1
                /\ \A j, k \in 1..sub[p][st] :
                      j < k => \A a \in PositionsOf(p, MsgLine(st, j)),
                                  b \in PositionsOf(p, MsgLine(st, k)) : a < b

----------------------------------------------------------------------------
(* C34 *)

\* C34: each call of DownloadVideo runs the external program once to extract
\* the metadata and, only when that succeeded, once to download: never more
\* than once each, and nothing is run again after a failure.
C34_RunsOnceEach ==
    \A p \in Procs :
        /\ call[p].runs.meta <= 1
        /\ call[p].runs.download <= 1
        /\ call[p].runs.download = 1 =>
              /\ call[p].runs.meta = 1
              /\ call[p].metadata # NoMeta
        /\ pc[p] = "dl_wait" => call[p].runs.download = 1
        /\ DownloadReturned(p) =>
              /\ call[p].runs.meta = 1
              /\ call[p].ret = ErrExtract => call[p].runs.download = 0
              /\ call[p].ret \notin {ErrExtract, ErrStart} => call[p].runs.download = 1

\* a download whose subprocess exited with an error has returned that error
\* after one run of each kind
C34_Witness ==
    \E p \in Procs :
        /\ DownloadReturned(p) /\ call[p].ret = ErrDownload
        /\ call[p].runs = [meta |-> 1, download |-> 1]

----------------------------------------------------------------------------
(* C35 *)

\* the files that exist among the exact candidates for the title, the
\* sanitized title and the id
AllExactHits(dsk, dir, title, id) ==
    ExactHits(dsk, dir, title) \cup ExactHits(dsk, dir, SanitizeFilename(title))
        \cup ExactHits(dsk, dir, id)

\* C35: findDownloadedFile fails only when no step has a candidate; it returns
\* a file of the recency fallback only when there is no exact candidate and no
\* media file whose name contains the title or the id in any case; and a file
\* it returns from the search by name or from the fallback carries no partial
\* marker.
C35_FallbackLastNoPartial ==
    \A p \in Procs :
        pc[p] = "located" =>
            LET T == call[p].metadata.Title
                I == call[p].metadata.ID
                exact == AllExactHits(disk, DownloadsDir, T, I)
                named == NamedHits(disk, DownloadsDir, T, I)
                recent == RecentHits(disk, DownloadsDir, now)
                found == Abs(call[p].file)
            IN  /\ call[p].ret # NoError =>
                      exact = {} /\ named = {} /\ recent = {}
                /\ call[p].ret = NoError => found \in DOMAIN disk
                /\ (call[p].ret = NoError /\ found \notin exact \cup named) =>
                      exact = {} /\ named = {} /\ found \in recent
                /\ (call[p].ret = NoError /\ found \notin exact) =>
                      ~IsPartial(Base(call[p].file))

\* the locator has returned a recent file that names neither the title nor the
\* id, over a directory that also holds a partial download named after the title
C35_Witness ==
    \E p \in Procs :
        /\ pc[p] = "located" /\ call[p].ret = NoError
        /\ ~NamesTitleOrId(Base(call[p].file), call[p].metadata.Title, call[p].metadata.ID)
        /\ \E f \in DOMAIN disk :
              /\ IsPartial(Base(f))
              /\ NamesTitleOrId(Base(f), call[p].metadata.Title, call[p].metadata.ID)
              /\ now - disk[f].mtime < RecencyTicks

----------------------------------------------------------------------------
(* C36 *)

\* the name ends in an in-progress-download marker
HasMarkerExtension(filename) == Ext(filename) \in {PartMarker, YtdlMarker}

\* the files the scanner is to register as the sentence has it: regular files
\* of the directory with an extension of the allow-list, in any case, whose
\* extension is no marker
StatedQualifying(dsk, dir) ==
    {f \in DOMAIN dsk :
        /\ f = Join(Abs(dir), Base(f))
        /\ HasExtensionOf(Base(f), VideoExtensions)
        /\ ~HasMarkerExtension(Base(f))}

\* the id the scanner generates for a file
ScanIdOf(dsk, f) == ExistingId(TrimSuffix(Base(f), Ext(Base(f))), dsk[f])

\* C36: after a scan a file has an entry if and only if it is a regular file of
\* the directory with an allow-listed extension whose extension is no marker;
\* a complete media file with the text of a marker inside its name has one.
\* (Files that share their generated id with another file are left out.)
C36_RegistersExactlyQualifying ==
    \A p \in Procs :
        pc[p] = "scan_done" =>
            /\ \A f \in DOMAIN disk :
                  EntriesOfFile(videos, f) # {} => f \in StatedQualifying(disk, DownloadsDir)
            /\ \A f \in StatedQualifying(disk, DownloadsDir) :
                  \/ EntriesOfFile(videos, f) # {}
                  \/ \E g \in StatedQualifying(disk, DownloadsDir) \ {f} :
                        ScanIdOf(disk, g) = ScanIdOf(disk, f)

----------------------------------------------------------------------------
(* C37 *)

\* the path leads to the directory or below it
LeadsInside(path, dir) ==
    LET root == Location(dir)
        at == Location(path)
    IN  Len(root) <= Len(at) /\ SubSeq(at, 1, Len(root)) = root

\* C37: the route GET /videos/<path> opens and serves files of its base
\* directory only: the handler of cmd/web answers a path that contains ".." or
\* "/" with 400 and opens nothing, the handler of the router answers a path
\* that SecurePath rejects with 400 and opens nothing, and every path either
\* handler opens leads into its base directory.
C37_ServedInsideBase ==
    /\ pc[1] = "videos_web_done" =>
          /\ (Contains(requested, DotDot) \/ Contains(requested, <<Separator>>)) =>
                spResult = [err |-> StatusBadRequest, path |-> <<>>]
          /\ spResult.path # <<>> => LeadsInside(spResult.path, WebBaseDir)
    /\ pc[1] = "videos_legacy_done" =>
          /\ SecurePath(DownloadsDir, requested).err # NoError =>
                spResult = [err |-> StatusBadRequest, path |-> <<>>]
          /\ spResult.path # <<>> => LeadsInside(spResult.path, DownloadsDir)
          /\ ~LeadsInside(Join(DownloadsDir, requested), DownloadsDir) =>
                spResult.path = <<>>

\* a request for a file of the parent directory has been answered with 400 by
\* the handler of cmd/web, nothing opened
C37_Witness ==
    /\ pc[1] = "videos_web_done"
    /\ requested = <<".", ".", "/", "x">>
    /\ spResult = [err |-> StatusBadRequest, path |-> <<>>]

\* the handler of the router has served a file below its base directory
C37_WitnessServed ==
    /\ pc[1] = "videos_legacy_done"
    /\ requested = <<"d", "/", "x">>
    /\ spResult.err = NoError
    /\ spResult.path = Abs(Join(DownloadsDir, requested))

----------------------------------------------------------------------------
(* C38 *)

\* C38: when LoadMetadata returns an error, because metadata.json cannot be
\* read or cannot be decoded, the map is the one before the call and
\* metadata.json is the file before the call.
C38_FailedLoadLeavesAll ==
    \A p \in Procs :
        (LoadReturned(p) /\ call[p].ret # NoError) =>
            /\ call[p].preFile.state \in {"unreadable", "corrupt"}
            /\ videos = call[p].pre
            /\ metaFile = call[p].preFile

\* LoadMetadata has failed to decode metadata.json on a map that holds entries
C38_Witness ==
    \E p \in Procs :
        /\ LoadReturned(p) /\ call[p].ret = ErrDecode
        /\ call[p].pre # EmptyMap /\ videos = call[p].pre

\* LoadMetadata has failed to read metadata.json on a map that holds entries
C38_WitnessUnreadable ==
    \E p \in Procs :
        /\ LoadReturned(p) /\ call[p].ret = ErrRead
        /\ call[p].pre # EmptyMap /\ videos = call[p].pre

----------------------------------------------------------------------------
(* C39 *)

\* the pattern classes in the order of their precedence, each with the type
\* parseYtDlpError gives it
PatternClasses ==
    << [patterns |-> NetworkPatterns, type |-> ErrorTypeNetwork],
       [patterns |-> NotFoundPatterns, type |-> ErrorTypeNotFound],
       [patterns |-> PermissionPatterns, type |-> ErrorTypePermission],
       [patterns |-> UnsupportedPatterns, type |-> ErrorTypeValidation] >>

\* the classes that have a pattern in the text, letter case ignored
MatchingClasses(text) ==
    {i \in 1..Len(PatternClasses) :
        \E pat \in PatternClasses[i].patterns :
            \E k \in 0..(Len(text) - Len(pat)) :
                EqualFold(SubSeq(text, k + 1, k + Len(pat)), pat)}

\* C39: parseYtDlpError gives a stderr text the type of the first class, in
\* the order network, not found, permission, unsupported source, of which the
\* text contains a pattern in any letter case, and the unknown type when it
\* contains none.
C39_FirstClassWins ==
    Classified =>
        LET hit == MatchingClasses(stderr)
        IN  downloadError.Type =
                IF hit = {} THEN ErrorTypeUnknown
                ELSE PatternClasses[CHOOSE i \in hit : \A j \in hit : i <= j].type

\* a text with "403" before "timeout" has been classified as a network error
C39_Witness ==
    /\ Classified
    /\ stderr = <<"4", "0", "3", "t", "i", "m", "e", "o", "u", "t">>
    /\ downloadError.Type = ErrorTypeNetwork

\* a text with "DNS" in upper case has been classified as a network error
C39_WitnessCase ==
    /\ Classified
    /\ stderr = <<"4", "0", "4", "D", "N", "S">>
    /\ downloadError.Type = ErrorTypeNetwork

----------------------------------------------------------------------------
(* static/script.js: RetryManager, the browser's retrying of its requests *)

\* new RetryManager(): the defaults of the constructor
maxRetries == 3
baseDelay == 1000

\* the key of loadVideos (handleVideoSubmission has a key of its own for each
\* link, on the same manager)
RetryKeys == {"load-videos"}

ErrExhausted == "Operation failed after maxRetries attempts"

\* Map.prototype.set, Map.prototype.delete, and `attempts.get(key) || 0`
MapSet(m, k, v) == [x \in DOMAIN m \cup {k} |-> IF x = k THEN v ELSE m[x]]
MapDelete(m, k) == [x \in DOMAIN m \ {k} |-> m[x]]
GetOrZero(m, k) == IF k \in DOMAIN m THEN m[k] ELSE 0

InitRetry ==
    /\ InitStore("retry")
    /\ videos = EmptyMap

retryFrame == <<DownloadsDir, requested, spResult, stderr, downloadError, storeVars,
                mode, chan, sent, closes, sub, pipe, rd, relay, ws, panicked>>

\* loadVideos calls execute(key, operation): the count is read and operation()
\* is invoked before execute first awaits.  loadVideos runs when the page has
\* loaded and two seconds after a successful submission (reset = FALSE), and
\* from the Retry buttons, which call retryManager.reset(key) first
\* (reset = TRUE)
ExecuteStart(p) ==
    /\ mode = "retry"
    /\ CanStart(p)
    /\ \E key \in RetryKeys, reset \in BOOLEAN :
        LET kept == IF reset THEN MapDelete(attempts, key) ELSE attempts
        IN  /\ attempts' = kept
            /\ call' = [call EXCEPT ![p] =
                            [NoCall EXCEPT !.key = key,
                                           !.attemptCount = GetOrZero(kept, key),
                                           !.invoked = 1]]
    /\ pc' = [pc EXCEPT ![p] = "rm_await"]
    /\ started' = started + 1
    /\ UNCHANGED retryFrame

\* the promise of operation() settles: on success the count is deleted and the
\* result returned; on failure the count is stored and the timer set, or, with
\* the retries used up, the count is deleted and the error thrown
ExecuteSettle(p) ==
    /\ pc[p] = "rm_await"
    /\ \E ok \in BOOLEAN :
        LET c == call[p]
        IN  IF ok
            THEN /\ attempts' = MapDelete(attempts, c.key)
                 /\ call' = [call EXCEPT ![p].ret = NoError]
                 /\ pc' = [pc EXCEPT ![p] = "rm_done"]
            ELSE IF c.attemptCount < maxRetries
            THEN /\ attempts' = MapSet(attempts, c.key, c.attemptCount + 1)
                 /\ call' = [call EXCEPT ![p].delays =
                                 Append(@, baseDelay * 2 ^ c.attemptCount)]
                 /\ pc' = [pc EXCEPT ![p] = "rm_sleep"]
            ELSE /\ attempts' = MapDelete(attempts, c.key)
                 /\ call' = [call EXCEPT ![p].ret = ErrExhausted]
                 /\ pc' = [pc EXCEPT ![p] = "rm_done"]
    /\ UNCHANGED <<retryFrame, started>>

\* the timer fires: `return this.execute(key, operation, onRetry)` reads the
\* count again and invokes operation() again
ExecuteRetry(p) ==
    /\ pc[p] = "rm_sleep"
    /\ call' = [call EXCEPT ![p].attemptCount = GetOrZero(attempts, call[p].key),
                            ![p].invoked = @ + 1]
    /\ pc' = [pc EXCEPT ![p] = "rm_await"]
    /\ UNCHANGED <<retryFrame, attempts, started>>

NextRetry ==
    \E p \in Procs : ExecuteStart(p) \/ ExecuteSettle(p) \/ ExecuteRetry(p) \/ Finish(p)

SpecRetry == InitRetry /\ [][NextRetry]_vars

----------------------------------------------------------------------------
(* C40 *)

\* the calls of execute that have not returned to their caller yet
Executing(p) == pc[p] \in {"rm_await", "rm_sleep"}

\* no other call of execute with p's key is under way
AloneOnKey(p) ==
    \A q \in Procs \ {p} : ~(pc[q] \in {"rm_await", "rm_sleep", "rm_done"}
                             /\ call[q].key = call[p].key)

\* the k-th retry of p was preceded by a wait of baseDelay * 2^(k-1)
DelaysDouble(p) ==
    \A k \in 1..Len(call[p].delays) : call[p].delays[k] = baseDelay * 2 ^ (k - 1)

\* C40: a call of execute invokes its operation at most maxRetries + 1 times,
\* waits once before each retry, baseDelay * 2^k before its (k+1)-th, and when
\* it has returned no count is recorded for its key
C40_RetryContract ==
    mode = "retry" =>
        \A p \in Procs :
            Executing(p) \/ pc[p] = "rm_done" =>
                /\ call[p].invoked <= maxRetries + 1
                /\ DelaysDouble(p)
                /\ Len(call[p].delays) = call[p].invoked - 1
                       \/ (pc[p] = "rm_sleep"
                           /\ Len(call[p].delays) = call[p].invoked)
                /\ pc[p] = "rm_done" /\ AloneOnKey(p) =>
                       call[p].key \notin DOMAIN attempts

====
